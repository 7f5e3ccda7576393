------------------------------ MODULE Registry ------------------------------
(***************************************************************************)
(* What an Operation Thing and the code registered under its key add up    *)
(* to: the two-source join of operations/registry.ts, and the gate of      *)
(* inbound/gate.ts that decides what a browser may have executed.          *)
(*                                                                         *)
(* A checkbox of a Thing is "yes", "no" or "unset".  Source and parameters *)
(* are told apart only by what the join asks of them.                      *)
(***************************************************************************)
EXTENDS Naturals, Sequences, FiniteSets

CONSTANTS Code,          \* the registered Implementations, by Operation key
          Configured     \* the egresses the configuration defines

Tri == {"yes", "no", "unset"}

\* An Operation Thing of the catalogue.
Operation == [key : STRING, implementation : {"built-in", "dynamic", "unset"},
              enabled : Tri, mutating : Tri, requiresApproval : Tri, clientReadable : Tri,
              source : {"none", "compiles", "broken"}, reconciles : BOOLEAN,
              egress : STRING, parameters : {"object", "other"}]

\* An Implementation registered in code: what only code can say of an Operation.
OperationImplementation == [mutating : BOOLEAN, requiresApproval : BOOLEAN,
                            clientReadable : BOOLEAN, reconciles : BOOLEAN]

\* register throws on a name that is taken, so the code is a function of the key.
Registered(key) == key \in DOMAIN Code

\* compile: stripped, free of import, export and require, and parsed, or refused.
Compiles(thing) == thing.source = "compiles"

hasEgress(thing) == thing.egress = "none" \/ thing.egress \in Configured

\* A grant names an Operation, and for assistant.call the callee after the colon.
Grant == [base : STRING, callee : STRING]

\* The catalogue is searched with find: the first Thing of that key.
ThingOf(base, catalogue) ==
    LET at == {i \in DOMAIN catalogue : catalogue[i].key = base} IN
    {catalogue[i] : i \in {j \in at : \A k \in at : j <= k}}

(***************************************************************************)
(* Why a grant is dropped, in the order the code asks; "granted" when it   *)
(* is not.                                                                 *)
(***************************************************************************)
Reason(grant, assistant, catalogue) ==
    LET found == ThingOf(grant.base, catalogue)
        thing == CHOOSE t \in found : TRUE
        dynamic == thing.implementation = "dynamic"
    IN  CASE found = {} -> "absent"
          [] found # {} /\ thing.enabled = "no" -> "disabled"
          [] found # {} /\ thing.enabled # "no" ->
             CASE ~dynamic /\ ~Registered(grant.base) -> "unimplemented"
               [] ~dynamic /\ Registered(grant.base) /\ thing.source # "none" -> "ambiguous"
               [] dynamic /\ Registered(grant.base) -> "ambiguous"
               [] dynamic /\ ~Registered(grant.base) /\ thing.source = "none" -> "unimplemented"
               [] dynamic /\ ~Registered(grant.base) /\ thing.source = "broken" -> "uncompilable"
               [] dynamic /\ ~Registered(grant.base) /\ Compiles(thing) /\ ~hasEgress(thing) -> "unconfigured-egress"
               [] OTHER ->
                  CASE thing.parameters # "object" -> "unparseable"
                    [] thing.parameters = "object" /\ grant.base = "assistant.call" /\ grant.callee = "none" -> "bare-call"
                    [] thing.parameters = "object" /\ grant.base = "assistant.call" /\ grant.callee = assistant -> "self-call"
                    [] OTHER -> "granted"

\* The join for a built-in: behaviour from code, approval from the Thing unless it is unset.
resolve(key, thing) ==
    [key |-> key, callee |-> "none", mutating |-> Code[key].mutating, reconciles |-> Code[key].reconciles,
     requiresApproval |-> IF thing.requiresApproval = "unset" THEN Code[key].requiresApproval
                          ELSE thing.requiresApproval = "yes"]

\* The join for a Dynamic Operation: there is no compiled author, so the Thing says it all.
resolveDynamic(key, thing) ==
    [key |-> key, callee |-> "none", mutating |-> thing.mutating = "yes", reconciles |-> thing.reconciles,
     requiresApproval |-> thing.requiresApproval = "yes"]

\* A callee is bound into the name and into the arguments.
withCalleeBound(operation, callee) ==
    [operation EXCEPT !.callee = callee]

GrantedOperation(grant, catalogue) ==
    LET thing == CHOOSE t \in ThingOf(grant.base, catalogue) : TRUE IN
    withCalleeBound(IF thing.implementation = "dynamic"
                    THEN resolveDynamic(grant.base, thing)
                    ELSE resolve(grant.base, thing), grant.callee)

\* push keeps the first of two grants that resolve to one name.
grantedTo(assistant, grants, catalogue) ==
    LET Granted(i) == Reason(grants[i], assistant, catalogue) = "granted"
        First(i) == \A j \in 1..(i - 1) : Granted(j) => grants[j] # grants[i]
    IN  [granted |-> {GrantedOperation(grants[i], catalogue) :
                        i \in {k \in DOMAIN grants : Granted(k) /\ First(k)}},
         dropped |-> {[key |-> grants[i], reason |-> Reason(grants[i], assistant, catalogue)] :
                        i \in {k \in DOMAIN grants : ~Granted(k)}}]

\* The executable the door runs for a Dynamic Operation, or none.
clientExecutable(thing) == Compiles(thing) /\ hasEgress(thing)

\* Slip: the allowlist is taken for a hint and the flags of the Thing for the rule.
decide_FlagsOnly(key, allowlist, things) ==
    \E t \in things : /\ t.clientReadable = "yes"
                      /\ t.mutating # "yes"
                      /\ t.requiresApproval # "yes"
                      /\ clientExecutable(t)

(***************************************************************************)
(* The gate.  The four checks are anded; a built-in answers them in code,  *)
(* a Dynamic Operation on its Thing, and a Thing nobody could read is no   *)
(* Dynamic Operation at all.                                               *)
(***************************************************************************)
decide(key, allowlist, things) ==
    LET dynamic == \E t \in things : t.implementation = "dynamic"
        thing == CHOOSE t \in things : TRUE
    IN  /\ key \in allowlist
        /\ ~dynamic => /\ Registered(key)
                       /\ Code[key].clientReadable
                       /\ ~Code[key].mutating
                       /\ ~Code[key].requiresApproval
        /\ dynamic => /\ ~Registered(key)
                      /\ thing.clientReadable = "yes"
                      /\ thing.mutating # "yes"
                      /\ thing.requiresApproval # "yes"
                      /\ clientExecutable(thing)

=============================================================================
