--------------------------- MODULE TurnLoopProofs ---------------------------
(***************************************************************************)
(* Proofs about TurnLoop, for every value of its constants.                *)
(*                                                                         *)
(* The inductive invariant Inv has two parts besides the types.  Ctl       *)
(* relates the Runtime's copy to the store and says which call may be      *)
(* unresolved at which step.  Books relates the ledger to the transcript.  *)
(* Three more rest on it.  Stamped says that a result recorded for a       *)
(* booking spends its approval; it needs the assumption NothingHidden, and *)
(* the run turn_lost shows that it fails without.  Asking numbers the      *)
(* approval questions by the requests of the transcript.  Ordered says     *)
(* that a result follows its call before the model speaks again; what the  *)
(* browser shows and what the vendors are sent both rest on it.            *)
(***************************************************************************)
EXTENDS Transcript, TLAPS, FiniteSetTheorems, WellFoundedInduction

-----------------------------------------------------------------------------
(***************************************************************************)
(* Least and greatest elements                                             *)
(***************************************************************************)

\* A nonempty set of naturals has a least element.
LEMMA LeastExists ==
    ASSUME NEW S, S \subseteq Nat, S # {}
    PROVE  \E x \in S : \A y \in S : x <= y
  <1>1. PICK x \in S : \A y \in S : ~(<<y, x>> \in OpToRel(<, Nat))
    BY NatLessThanWellFounded, WFMin
  <1>2. ASSUME NEW y \in S  PROVE x <= y
    <2>1. x \in Nat /\ y \in Nat
      OBVIOUS
    <2>2. y < x => <<y, x>> \in OpToRel(<, Nat)
      BY <2>1 DEF OpToRel
    <2>3. ~(y < x)
      BY <1>1, <2>2
    <2> QED  BY <2>1, <2>3
  <1> QED  BY <1>2

\* A nonempty bounded set of naturals has a greatest element.
LEMMA GreatestExists ==
    ASSUME NEW n \in Nat, NEW S, S \subseteq 1..n, S # {}
    PROVE  \E x \in S : \A y \in S : y <= x
  <1> DEFINE D == {n - x : x \in S}
  <1>0. \A x \in S : x \in Nat /\ x <= n
    OBVIOUS
  <1>1. D \subseteq Nat
    BY <1>0
  <1>2. D # {}
    OBVIOUS
  <1>3. PICK d \in D : \A e \in D : d <= e
    <2> HIDE DEF D
    <2> QED  BY <1>1, <1>2, LeastExists
  <1>4. PICK x \in S : d = n - x
    OBVIOUS
  <1>5. ASSUME NEW y \in S  PROVE y <= x
    <2>1. n - y \in D
      OBVIOUS
    <2>2. d <= n - y
      BY <1>3, <2>1
    <2> QED  BY <1>0, <1>4, <2>2
  <1> QED  BY <1>5

-----------------------------------------------------------------------------
(***************************************************************************)
(* Counting                                                                *)
(***************************************************************************)

\* The rank of a member lies between one and the size of the set.
LEMMA RankRange ==
    ASSUME NEW P, IsFiniteSet(P), NEW i \in P, P \subseteq Int
    PROVE  Rank(P, i) \in 1..Cardinality(P)
  <1> DEFINE U == {j \in P : j <= i}
  <1>1. IsFiniteSet(U) /\ Cardinality(U) <= Cardinality(P)
    BY FS_Subset
  <1>2. i \in U
    OBVIOUS
  <1>3. Cardinality(U) # 0
    BY <1>1, <1>2, FS_EmptySet
  <1>4. Cardinality(U) \in Nat /\ Cardinality(P) \in Nat
    BY <1>1, FS_CardinalityType
  <1> QED  BY <1>1, <1>3, <1>4 DEF Rank

\* Of two members the greater has the greater rank.
LEMMA RankOrder ==
    ASSUME NEW P, IsFiniteSet(P), P \subseteq Int, NEW i \in P, NEW j \in P, i < j
    PROVE  Rank(P, i) < Rank(P, j)
  <1> DEFINE U == {k \in P : k <= i}
             V == {k \in P : k <= j}
  <1>1. U \in SUBSET V
    <2>1. \A k \in P : k \in Int /\ (k <= i => k <= j)
      OBVIOUS
    <2> QED  BY <2>1
  <1>2. j \in V /\ j \notin U
    OBVIOUS
  <1>3. IsFiniteSet(V)
    BY FS_Subset
  <1>4. Cardinality(U) <= Cardinality(V) /\ IsFiniteSet(U) /\ Cardinality(V) # Cardinality(U)
    BY <1>1, <1>2, <1>3, FS_Subset
  <1>5. Cardinality(U) \in Nat /\ Cardinality(V) \in Nat
    BY <1>3, <1>4, FS_CardinalityType
  <1> QED  BY <1>4, <1>5 DEF Rank

\* Every number up to the size of the set is the rank of a member, Nth finds it, and it
\* finds every member.
LEMMA NthRank ==
    ASSUME NEW P, IsFiniteSet(P), P \subseteq Int
    PROVE  /\ Cardinality(P) \in Nat
           /\ \A n \in 1..Cardinality(P) : Nth(P, n) \in P /\ Rank(P, Nth(P, n)) = n
           /\ \A i \in P : Rank(P, i) \in 1..Cardinality(P) /\ Nth(P, Rank(P, i)) = i
  <1> DEFINE C == Cardinality(P)
             f == [i \in P |-> Rank(P, i)]
  <1>1. C \in Nat
    BY FS_CardinalityType
  <1>2. \A i \in P : Rank(P, i) \in 1..C
    BY RankRange
  <1>3. \A i, j \in P : Rank(P, i) = Rank(P, j) => i = j
    <2> SUFFICES ASSUME NEW i \in P, NEW j \in P, Rank(P, i) = Rank(P, j), i # j
                 PROVE  FALSE
      OBVIOUS
    <2>1. i \in Int /\ j \in Int
      OBVIOUS
    <2>2. Rank(P, i) \in Int /\ Rank(P, j) \in Int
      BY <1>1, <1>2
    <2>3. CASE i < j
      <3>1. Rank(P, i) < Rank(P, j)
        BY <2>3, RankOrder
      <3> QED  BY <3>1, <2>2
    <2>4. CASE j < i
      <3>1. Rank(P, j) < Rank(P, i)
        BY <2>4, RankOrder
      <3> QED  BY <3>1, <2>2
    <2> QED  BY <2>1, <2>3, <2>4
  <1>4. f \in Injection(P, 1..C)
    BY <1>2, <1>3 DEF Injection, IsInjective
  <1>5. IsFiniteSet(1..C) /\ Cardinality(1..C) = C
    BY <1>1, FS_Interval
  <1>6. f \in Surjection(P, 1..C)
    BY <1>4, <1>5, FS_Injection
  <1>7. \A n \in 1..C : \E i \in P : Rank(P, i) = n
    BY <1>6 DEF Surjection
  <1>8. \A n \in 1..C : Nth(P, n) \in P /\ Rank(P, Nth(P, n)) = n
    BY <1>7 DEF Nth
  <1>9. \A i \in P : Nth(P, Rank(P, i)) = i
    BY <1>2, <1>3, <1>8
  <1> QED  BY <1>1, <1>2, <1>8, <1>9

\* pos lists the members of P in ascending order.
Enumerates(pos, n, P) ==
    /\ n \in Nat /\ pos \in [1..n -> P]
    /\ \A i, j \in 1..n : i < j => pos[i] < pos[j]
    /\ \A x \in P : \E i \in 1..n : pos[i] = x

Picks(pos, n, s, P) == Enumerates(pos, n, P) /\ Pick(s, P) = [i \in 1..n |-> s[pos[i]]]

\* Pick takes what stands at these positions, in their order, and leaves none out.
LEMMA Picked ==
    ASSUME NEW s, NEW P, IsFiniteSet(P), P \subseteq Int
    PROVE  \E n, pos : Picks(pos, n, s, P)
  <1> DEFINE c == Cardinality(P)
             pos == [i \in 1..c |-> Nth(P, i)]
  <1>1. /\ c \in Nat
        /\ \A n \in 1..c : Nth(P, n) \in P /\ Rank(P, Nth(P, n)) = n
        /\ \A i \in P : Rank(P, i) \in 1..c /\ Nth(P, Rank(P, i)) = i
    BY NthRank
  <1>2. ASSUME NEW i \in 1..c, NEW j \in 1..c, i < j  PROVE Nth(P, i) < Nth(P, j)
    <2>1. /\ Nth(P, i) \in P /\ Rank(P, Nth(P, i)) = i
          /\ Nth(P, j) \in P /\ Rank(P, Nth(P, j)) = j
      BY <1>1
    <2>2. CASE Nth(P, j) < Nth(P, i)
      <3>1. j < i
        BY <2>1, <2>2, RankOrder
      <3> QED  BY <1>1, <1>2, <3>1
    <2>3. Nth(P, i) \in Int /\ Nth(P, j) \in Int
      BY <2>1
    <2>4. Nth(P, i) # Nth(P, j)
      <3>1. Nth(P, i) = Nth(P, j) => i = j
        BY <2>1
      <3>2. i # j
        BY <1>1, <1>2
      <3> QED  BY <3>1, <3>2
    <2> QED  BY <2>2, <2>3, <2>4
  <1>3. Pick(s, P) = [i \in 1..c |-> s[pos[i]]]
    BY DEF Pick
  <1>4. Enumerates(pos, c, P)
    BY <1>1, <1>2 DEF Enumerates
  <1> HIDE DEF c, pos
  <1>5. Picks(pos, c, s, P)
    BY <1>3, <1>4 DEF Picks
  <1> QED  BY <1>5

-----------------------------------------------------------------------------
(***************************************************************************)
(* Transcripts                                                             *)
(***************************************************************************)

Prefix(e, f) == Len(e) <= Len(f) /\ \A i \in 1..Len(e) : f[i] = e[i]

\* An intent is named by its position, a result names an earlier row, an answer
\* is that of its question, and an approval request names a question about its
\* own arguments.
RowOK(r, i) ==
    /\ r.kind = "intent" => r.key = i
    /\ r.kind = "result" => r.key < i
    /\ r.kind = "answer" => r = AnswerRow(r.q)
    /\ r.kind = "request" => r.q.kind = "approval" /\ r.q.args = r.args

RowsOK(e) == \A i \in 1..Len(e) : RowOK(e[i], i)

AtMostOne(S) == \A i, j \in S : i = j

\* Rows are entries.
LEMMA RowTypes ==
    /\ \A k \in {"prompt", "assistant", "error", "answer", "intent", "result", "request"} :
          Row(k) \in Entry /\ Row(k).kind = k
    /\ \A c \in Call, n \in Nat :
          IntentRow(c, n) \in Entry /\ IntentRow(c, n).kind = "intent" /\ IntentRow(c, n).key = n
    /\ \A op \in Ops \cup {"none"}, n \in Nat, a \in Args \cup {NoArgs} :
          /\ ResultRow(op, n, a) \in Entry
          /\ ResultRow(op, n, a).kind = "result"
          /\ ResultRow(op, n, a).key = n
          /\ ResultRow(op, n, a).op = op
          /\ ResultRow(op, n, a).args = a
    /\ \A a \in Args \cup {NoArgs}, q \in QuestionKey :
          /\ RequestRow(a, q) \in Entry
          /\ RequestRow(a, q).kind = "request"
          /\ RequestRow(a, q).args = a
          /\ RequestRow(a, q).q = q
    /\ \A q \in QuestionKey :
          AnswerRow(q) \in Entry /\ AnswerRow(q).kind = "answer" /\ AnswerRow(q).q = q
    /\ NoQuestion \in QuestionKey
  BY DEF Row, IntentRow, ResultRow, RequestRow, AnswerRow, Entry, QuestionKey, NoQuestion,
         Ops, Call

\* A result row is an entry that names its call.
LEMMA ResultRowType ==
    ASSUME NEW op \in Ops \cup {"none"}, NEW n \in Nat, NEW a \in Args \cup {NoArgs}
    PROVE  /\ ResultRow(op, n, a) \in Entry
           /\ ResultRow(op, n, a).kind = "result"
           /\ ResultRow(op, n, a).key = n
           /\ ResultRow(op, n, a).op = op
           /\ ResultRow(op, n, a).args = a
  BY RowTypes

\* A longer transcript starts with the shorter one.
LEMMA AppendPrefix ==
    ASSUME NEW e \in Seq(Entry), NEW f \in Seq(Entry), Prefix(e, f), NEW r \in Entry
    PROVE  /\ Append(f, r) \in Seq(Entry)
           /\ Prefix(e, Append(f, r))
           /\ Len(Append(f, r)) = Len(f) + 1
           /\ Append(f, r)[Len(f) + 1] = r
           /\ \A i \in 1..Len(f) : Append(f, r)[i] = f[i]
  BY DEF Prefix

\* A well-formed row keeps the transcript well-formed.
LEMMA AppendRowsOK ==
    ASSUME NEW f \in Seq(Entry), RowsOK(f), NEW r \in Entry, RowOK(r, Len(f) + 1)
    PROVE  RowsOK(Append(f, r))
  <1>1. \A i \in 1..Len(f) : Append(f, r)[i] = f[i]
    OBVIOUS
  <1>2. Append(f, r)[Len(f) + 1] = r /\ Len(Append(f, r)) = Len(f) + 1
    OBVIOUS
  <1>3. \A i \in 1..Len(Append(f, r)) : i \in 1..Len(f) \/ i = Len(f) + 1
    BY <1>2
  <1> QED  BY <1>1, <1>2, <1>3 DEF RowsOK

\* A prefix of a well-formed transcript is well-formed.
LEMMA PrefixRowsOK ==
    ASSUME NEW e \in Seq(Entry), NEW f \in Seq(Entry), Prefix(e, f), RowsOK(f)
    PROVE  RowsOK(e)
  <1>1. \A i \in 1..Len(e) : i \in 1..Len(f) /\ f[i] = e[i]
    BY DEF Prefix
  <1> QED  BY <1>1 DEF RowsOK

\* A row that is neither an intent nor a result resolves nothing.
LEMMA AppendOther ==
    ASSUME NEW f \in Seq(Entry), NEW r \in Entry, r.kind \notin {"intent", "result"}
    PROVE  Unresolved(Append(f, r)) = Unresolved(f)
  BY DEF Unresolved, Resolved, Positions

\* A result resolves the intent it names and no other.
LEMMA AppendResult ==
    ASSUME NEW f \in Seq(Entry), NEW r \in Entry, r.kind = "result", RowsOK(f)
    PROVE  Unresolved(Append(f, r)) = Unresolved(f) \ {r.key}
  BY DEF Unresolved, Resolved, Positions, RowsOK, RowOK

\* A new intent is unresolved, and nothing else changes.
LEMMA AppendIntent ==
    ASSUME NEW f \in Seq(Entry), NEW r \in Entry, r.kind = "intent", RowsOK(f),
           r.key = Len(f) + 1
    PROVE  Unresolved(Append(f, r)) = Unresolved(f) \cup {Len(f) + 1}
  BY DEF Unresolved, Resolved, Positions, RowsOK, RowOK

\* unresolvedIntent returns an unresolved intent when there is one.
LEMMA FirstUnresolved ==
    ASSUME NEW e \in Seq(Entry), RowsOK(e), Unresolved(e) # {}
    PROVE  /\ unresolvedIntent(e) \in Unresolved(e)
           /\ unresolvedIntent(e) \in 1..Len(e)
           /\ e[unresolvedIntent(e)].kind = "intent"
           /\ e[unresolvedIntent(e)].key = unresolvedIntent(e)
  <1>1. Unresolved(e) \subseteq Nat /\ Unresolved(e) \subseteq 1..Len(e)
    BY DEF Unresolved, Positions
  <1>2. \E i \in Unresolved(e) : \A j \in Unresolved(e) : i <= j
    BY <1>1, LeastExists
  <1>3. unresolvedIntent(e) \in Unresolved(e)
    BY <1>2, Zenon DEF unresolvedIntent
  <1> QED  BY <1>1, <1>3 DEF Unresolved, Positions, RowsOK, RowOK

\* The question findApproval looks at is that of a recorded request.
LEMMA LastRequestExists ==
    ASSUME NEW e \in Seq(Entry), NEW a, approvalRequestsFor(e, a) # {}
    PROVE  /\ LastRequest(e, a) \in 1..Len(e)
           /\ e[LastRequest(e, a)].kind = "request"
           /\ e[LastRequest(e, a)].args = a
  <1>1. approvalRequestsFor(e, a) \subseteq 1..Len(e)
    BY DEF approvalRequestsFor, Positions
  <1>2. Len(e) \in Nat
    OBVIOUS
  <1>3. \E i \in approvalRequestsFor(e, a) : \A j \in approvalRequestsFor(e, a) : j <= i
    BY <1>1, <1>2, GreatestExists
  <1>4. LastRequest(e, a) \in approvalRequestsFor(e, a)
    BY <1>3, Zenon DEF LastRequest
  <1> QED  BY <1>4 DEF approvalRequestsFor, Positions

\* The answer findApproval starts from is the first one.
LEMMA FirstAnswerExists ==
    ASSUME NEW e \in Seq(Entry), NEW q, AnswersTo(e, q) # {}
    PROVE  /\ FirstAnswer(e, q) \in AnswersTo(e, q)
           /\ \A j \in AnswersTo(e, q) : FirstAnswer(e, q) <= j
  <1>1. AnswersTo(e, q) \subseteq Nat
    BY DEF AnswersTo, Positions
  <1>2. \E i \in AnswersTo(e, q) : \A j \in AnswersTo(e, q) : i <= j
    BY <1>1, LeastExists
  <1> QED  BY <1>2, Zenon DEF FirstAnswer

\* The key of a new approval is a question key.
LEMMA ApprovalKeyType ==
    ASSUME NEW e \in Seq(Entry), NEW a \in Args \cup {NoArgs}
    PROVE  /\ ApprovalKey(e, a) \in QuestionKey
           /\ ApprovalKey(e, a).kind = "approval"
           /\ ApprovalKey(e, a).args = a
  <1>1. approvalRequestsFor(e, a) \subseteq 1..Len(e)
    BY DEF approvalRequestsFor, Positions
  <1>2. IsFiniteSet(1..Len(e))
    BY FS_Interval
  <1>3. Cardinality(approvalRequestsFor(e, a)) \in Nat
    BY <1>1, <1>2, FS_Subset, FS_CardinalityType
  <1> QED  BY <1>3 DEF ApprovalKey, QuestionKey

-----------------------------------------------------------------------------
(***************************************************************************)
(* The inductive invariant                                                 *)
(***************************************************************************)

\* A Conversation that may be written back.
Storable(c) ==
    /\ AtMostOne(Unresolved(c.entries))
    /\ c.status = "done" => Unresolved(c.entries) = {}

CallsOK(calls) ==
    \A i \in 1..Len(calls) : calls[i].op = "post" => calls[i].args \in Args

\* The call in hand: its intent is stored, it is the last row, and it is the
\* only unresolved one.
InHand ==
    /\ conv = mem
    /\ turn.calls # <<>>
    /\ Len(mem.entries) > 0
    /\ mem.entries[Len(mem.entries)] = IntentRow(Current, Len(mem.entries))
    /\ Unresolved(mem.entries) = {Len(mem.entries)}

Ctl ==
    /\ Prefix(conv.entries, mem.entries)
    /\ RowsOK(mem.entries)
    /\ Storable(conv)
    /\ CallsOK(turn.calls)
    /\ pc \in {"idle", "advance"} => mem = conv
    /\ pc \notin {"idle", "advance"} => mem.status # "done"
    /\ pc = "reconciling" => Unresolved(mem.entries) # {} /\ AtMostOne(Unresolved(mem.entries))
    /\ pc \in {"thinking", "calling"} => Unresolved(mem.entries) = {}
    /\ pc \in {"refusing", "gating", "executing"} => InHand
    /\ pc = "gating" => Current.op = "post"
    /\ pc = "writing" => AtMostOne(Unresolved(mem.entries))

\* The yes the call in hand is executed on.
Authorised ==
    /\ turn.auth \in yeses
    /\ turn.auth.args = Current.args
    /\ AnswersTo(mem.entries, turn.auth) # {}
    /\ ~Spent(mem.entries, Current.args, turn.auth)

Books ==
    /\ \A q \in DOMAIN questions : questions[q] = "yes" /\ q.kind = "approval" => q \in yeses
    /\ pc \in {"refusing", "gating", "executing"} => \A b \in ledger : b.key < Len(mem.entries)
    /\ pc = "executing" /\ Current.op = "post" => Authorised
    /\ IntentIsDurable
    /\ BookingHasYes

Inv == TypeOK /\ Ctl /\ Books

-----------------------------------------------------------------------------
(***************************************************************************)
(* Ways for a step to end                                                  *)
(***************************************************************************)

\* What most steps do to everything but the Conversation: at most raise a
\* question.
Quiet ==
    /\ UNCHANGED <<ledger, catalogue, assistant, yeses, crashes, edits>>
    /\ UNCHANGED questions \/ \E q \in QuestionKey : Raise(q)

\* A Conversation that continues the stored one.
Continues(c) ==
    /\ c \in Conversation
    /\ Prefix(conv.entries, c.entries)
    /\ RowsOK(c.entries)

TypeRest ==
    /\ DOMAIN questions \subseteq QuestionKey
    /\ \A q \in DOMAIN questions : questions[q] \in Answered \cup {"open"}
    /\ ledger \subseteq Booking
    /\ catalogue \subseteq Ops
    /\ assistant \in {"enabled", "disabled", "gone"}
    /\ yeses \subseteq QuestionKey
    /\ crashes \in Nat /\ edits \in Nat

YesKnown ==
    \A q \in DOMAIN questions : questions[q] = "yes" /\ q.kind = "approval" => q \in yeses

\* What a step must achieve: the invariant, and a transcript that only grew.
Kept == Inv' /\ Prefix(conv.entries, conv'.entries)

\* A quiet step keeps the types of the rest and the history of yeses.
LEMMA QuietRest ==
    ASSUME TypeRest, YesKnown, Quiet
    PROVE  TypeRest' /\ YesKnown'
  <1>1. CASE UNCHANGED questions
    BY <1>1 DEF TypeRest, YesKnown, Quiet
  <1>2. CASE \E q \in QuestionKey : Raise(q)
    <2>1. PICK q \in QuestionKey : Raise(q)
      BY <1>2
    <2>2. DOMAIN questions' = DOMAIN questions \cup {q}
      BY <2>1 DEF Raise
    <2>3. \A k \in DOMAIN questions' :
              questions'[k] = IF k \in DOMAIN questions THEN questions[k] ELSE "open"
      BY <2>1, <2>2 DEF Raise
    <2> QED  BY <2>2, <2>3 DEF TypeRest, YesKnown, Quiet
  <1> QED  BY <1>1, <1>2 DEF Quiet

\* The store continuing, bookings keep their intent and their yes.
LEMMA BooksKept ==
    ASSUME ledger \subseteq Booking, IntentIsDurable, BookingHasYes,
           conv.entries \in Seq(Entry), conv'.entries \in Seq(Entry),
           Prefix(conv.entries, conv'.entries),
           ledger' = ledger, yeses \subseteq yeses'
    PROVE  IntentIsDurable' /\ BookingHasYes'
  <1>1. \A i \in 1..Len(conv.entries) : i \in 1..Len(conv'.entries) /\ conv'.entries[i] = conv.entries[i]
    BY DEF Prefix
  <1>2. IntentIsDurable'
    BY <1>1 DEF IntentIsDurable
  <1>3. ASSUME NEW b \in ledger, NEW i \in 1..(b.key - 1)
        PROVE  i \in 1..Len(conv.entries)
    <2>1. b.key \in 1..Len(conv.entries)
      BY Zenon DEF IntentIsDurable
    <2>2. Len(conv.entries) \in Nat
      OBVIOUS
    <2> QED  BY <2>1, <2>2
  <1>4. BookingHasYes'
    BY <1>1, <1>3 DEF BookingHasYes
  <1> QED  BY <1>2, <1>4

\* A transcript starts with itself.
LEMMA PrefixRefl ==
    ASSUME NEW e \in Seq(Entry)  PROVE Prefix(e, e)
  BY DEF Prefix

\* Back between Turns with store c.
LEMMA Returns ==
    ASSUME ConstantsAssumption, Inv, Quiet, NEW c, Continues(c), Storable(c), Return(c)
    PROVE  Kept
  <1>1. TypeRest' /\ YesKnown'
    BY QuietRest DEF Inv, TypeOK, Books, TypeRest, YesKnown
  <1>2. turn' = NoTurn /\ turn'.calls = <<>> /\ pc' = "idle" /\ conv' = c /\ mem' = c
    BY DEF Return, NoTurn
  <1>3. NoTurn \in [attempt : 1..LlmMaxAttempts, granted : SUBSET Ops, calls : Seq(Call),
                    auth : QuestionKey]
    BY RowTypes DEF NoTurn, ConstantsAssumption
  <1>4. TypeOK'
    BY <1>1, <1>2, <1>3 DEF TypeOK, TypeRest, Continues
  <1>5. c.entries \in Seq(Entry) /\ conv.entries \in Seq(Entry)
    BY DEF Continues, Conversation, Inv, TypeOK
  <1>6. Ctl'
    BY <1>2, <1>5, PrefixRefl DEF Ctl, Continues, CallsOK
  <1>7. IntentIsDurable' /\ BookingHasYes'
    BY <1>2, <1>5, BooksKept DEF Inv, TypeOK, Books, Continues, Quiet
  <1>8. Books'
    BY <1>1, <1>2, <1>7 DEF Books, YesKnown
  <1> QED  BY <1>2, <1>4, <1>6, <1>8 DEF Inv, Kept, Continues

\* The store itself continues the store.
LEMMA ConvContinues ==
    ASSUME Inv  PROVE Continues(conv) /\ Storable(conv)
  <1>1. conv.entries \in Seq(Entry) /\ mem.entries \in Seq(Entry)
    BY DEF Inv, TypeOK, Conversation
  <1> QED  BY <1>1, PrefixRefl, PrefixRowsOK DEF Inv, TypeOK, Ctl, Continues

\* A write that ends the Turn; a refused one leaves the store as it was.
LEMMA WritesAndReturns ==
    ASSUME ConstantsAssumption, Inv, Quiet, NEW c, Continues(c), Storable(c), WriteAndReturn(c)
    PROVE  Kept
  <1>1. CASE Fits(c)
    BY <1>1, Returns DEF WriteAndReturn
  <1>2. CASE ~Fits(c)
    BY <1>2, Returns, ConvContinues DEF WriteAndReturn
  <1> QED  BY <1>1, <1>2

\* Raise a question and leave c to be written.
LEMMA RaisesThenWrites ==
    ASSUME Inv, UNCHANGED <<ledger, catalogue, assistant, yeses, crashes, edits>>,
           NEW q \in QuestionKey, NEW c, Continues(c), AtMostOne(Unresolved(c.entries)),
           c.status # "done", RaiseThenWrite(q, c)
    PROVE  Kept
  <1>1. Quiet
    BY DEF Quiet, RaiseThenWrite
  <1>2. TypeRest' /\ YesKnown'
    BY <1>1, QuietRest DEF Inv, TypeOK, Books, TypeRest, YesKnown
  <1>3. conv' = conv /\ mem' = c /\ pc' = "writing" /\ turn' = turn
    BY DEF RaiseThenWrite
  <1>4. TypeOK'
    BY <1>2, <1>3 DEF Inv, TypeOK, TypeRest, Continues
  <1>5. Ctl'
    BY <1>3 DEF Inv, Ctl, Continues
  <1>6. IntentIsDurable' /\ BookingHasYes'
    BY <1>3 DEF Inv, Books, IntentIsDurable, BookingHasYes
  <1>7. Inv'
    BY <1>2, <1>3, <1>4, <1>5, <1>6 DEF Inv, Books, YesKnown
  <1>8. conv.entries \in Seq(Entry)
    BY DEF Inv, TypeOK, Conversation
  <1> QED  BY <1>3, <1>7, <1>8, PrefixRefl DEF Kept

\* Go on thinking or calling with copy c; the store is c or what it was.
LEMMA GoesOn ==
    ASSUME Inv, Quiet, NEW c, Continues(c), Unresolved(c.entries) = {}, c.status # "done",
           conv' = conv \/ conv' = c, mem' = c, pc' \in {"thinking", "calling"},
           turn' \in [attempt : 1..LlmMaxAttempts, granted : SUBSET Ops, calls : Seq(Call),
                      auth : QuestionKey],
           CallsOK(turn'.calls)
    PROVE  Kept
  <1>1. TypeRest' /\ YesKnown'
    BY QuietRest DEF Inv, TypeOK, Books, TypeRest, YesKnown
  <1>2. TypeOK'
    BY <1>1 DEF Inv, TypeOK, TypeRest, Continues
  <1>3. c.entries \in Seq(Entry) /\ conv.entries \in Seq(Entry) /\ conv'.entries \in Seq(Entry)
    BY DEF Continues, Conversation, Inv, TypeOK
  <1>4. Prefix(conv.entries, conv'.entries) /\ Prefix(conv'.entries, c.entries) /\ Storable(conv')
    BY <1>3, PrefixRefl DEF Continues, Storable, AtMostOne, Inv, Ctl
  <1>5. Ctl'
    BY <1>4 DEF Ctl, Continues, Storable
  <1>6. IntentIsDurable' /\ BookingHasYes'
    BY <1>3, <1>4, BooksKept DEF Inv, TypeOK, Books, Quiet
  <1> QED  BY <1>1, <1>2, <1>4, <1>5, <1>6 DEF Inv, Books, YesKnown, Kept

-----------------------------------------------------------------------------
(***************************************************************************)
(* The actions                                                             *)
(***************************************************************************)

\* Appending a row that is neither intent nor result.
LEMMA AppendsOther ==
    ASSUME Inv, NEW c, Continues(c), NEW r \in Entry, RowOK(r, Len(c.entries) + 1),
           r.kind \notin {"intent", "result"}
    PROVE  /\ Continues(appendEntry(c, r))
           /\ Unresolved(appendEntry(c, r).entries) = Unresolved(c.entries)
           /\ appendEntry(c, r).status = c.status
  <1> DEFINE f == Append(c.entries, r)
  <1>1. c.entries \in Seq(Entry) /\ conv.entries \in Seq(Entry)
    BY DEF Continues, Conversation, Inv, TypeOK
  <1>2. appendEntry(c, r) = [c EXCEPT !.entries = f]
    BY DEF appendEntry
  <1>3. f \in Seq(Entry) /\ Prefix(conv.entries, f)
    BY <1>1, AppendPrefix DEF Continues
  <1>4. RowsOK(f) /\ Unresolved(f) = Unresolved(c.entries)
    BY <1>1, AppendRowsOK, AppendOther DEF Continues
  <1> HIDE DEF f
  <1>5. [c EXCEPT !.entries = f] \in Conversation /\ [c EXCEPT !.entries = f].entries = f
        /\ [c EXCEPT !.entries = f].status = c.status
    BY <1>3 DEF Continues, Conversation
  <1> QED  BY <1>2, <1>3, <1>4, <1>5 DEF Continues

\* Appending a result.
LEMMA AppendsResult ==
    ASSUME Inv, NEW c, Continues(c), NEW r \in Entry, r.kind = "result",
           r.key \in 1..Len(c.entries)
    PROVE  /\ Continues(appendEntry(c, r))
           /\ Unresolved(appendEntry(c, r).entries) = Unresolved(c.entries) \ {r.key}
           /\ appendEntry(c, r).status = c.status
           /\ appendEntry(c, r).entries = Append(c.entries, r)
  <1> DEFINE f == Append(c.entries, r)
  <1>1. c.entries \in Seq(Entry) /\ conv.entries \in Seq(Entry)
    BY DEF Continues, Conversation, Inv, TypeOK
  <1>2. appendEntry(c, r) = [c EXCEPT !.entries = f]
    BY DEF appendEntry
  <1>3. f \in Seq(Entry) /\ Prefix(conv.entries, f)
    BY <1>1, AppendPrefix DEF Continues
  <1>4. RowOK(r, Len(c.entries) + 1)
    BY <1>1 DEF RowOK
  <1>5. RowsOK(f) /\ Unresolved(f) = Unresolved(c.entries) \ {r.key}
    BY <1>1, <1>4, AppendRowsOK, AppendResult DEF Continues
  <1> HIDE DEF f
  <1>6. [c EXCEPT !.entries = f] \in Conversation /\ [c EXCEPT !.entries = f].entries = f
        /\ [c EXCEPT !.entries = f].status = c.status
    BY <1>3 DEF Continues, Conversation
  <1>7. appendEntry(c, r).entries = Append(c.entries, r)
    BY <1>2, <1>6 DEF f
  <1> QED  BY <1>2, <1>3, <1>5, <1>6, <1>7 DEF Continues

\* The row that says why.
LEMMA AppendsRow ==
    ASSUME Inv, NEW c, Continues(c), NEW k \in {"assistant", "error"}
    PROVE  /\ Continues(appendEntry(c, Row(k)))
           /\ Unresolved(appendEntry(c, Row(k)).entries) = Unresolved(c.entries)
           /\ appendEntry(c, Row(k)).status = c.status
  <1>1. Row(k) \in Entry /\ Row(k).kind = k
    BY RowTypes
  <1>2. RowOK(Row(k), Len(c.entries) + 1)
    BY <1>1 DEF RowOK
  <1> QED  BY <1>1, <1>2, AppendsOther

\* A suspended copy has the rows of the copy.
LEMMA SuspendedOK ==
    ASSUME NEW c, Continues(c), NEW w \in {"user", "tool"}, NEW q \in QuestionKey
    PROVE  /\ Continues(suspended(c, w, q))
           /\ suspended(c, w, q).entries = c.entries
           /\ suspended(c, w, q).status = "waiting"
  BY DEF suspended, Continues, Conversation

\* escalateByKey keeps the invariant.
LEMMA Escalates ==
    ASSUME ConstantsAssumption, Inv, NEW c, Continues(c), AtMostOne(Unresolved(c.entries)),
           escalateByKey(c),
           UNCHANGED <<ledger, catalogue, assistant, yeses, crashes, edits>>
    PROVE  Kept
  <1> DEFINE n == c.escalations + 1
             a == appendEntry(c, Row("error"))
             e == [a EXCEPT !.escalations = n]
             x == [e EXCEPT !.status = "failed", !.lease = "none", !.question = NoQuestion]
  <1>1. Continues(a) /\ Unresolved(a.entries) = Unresolved(c.entries)
    BY AppendsRow
  <1>2. n \in Nat
    <2>1. c \in Conversation
      BY DEF Continues
    <2>2. c.escalations \in Nat
      BY <2>1 DEF Conversation
    <2> QED  BY <2>2
  <1> HIDE DEF a, n
  <1>3. Continues(e) /\ e.entries = a.entries
    BY <1>1, <1>2 DEF Continues, Conversation
  <1> HIDE DEF e
  <1>4. CASE n > MaxEscalations
    <2>1. Continues(x) /\ x.entries = e.entries /\ x.status = "failed"
      BY <1>3, RowTypes DEF Continues, Conversation
    <2>2. WriteAndReturn(x) /\ UNCHANGED questions
      BY <1>4 DEF escalateByKey, e, a, n
    <2> HIDE DEF x
    <2>3. Storable(x)
      BY <1>1, <1>3, <2>1 DEF Storable
    <2> QED  BY <2>1, <2>2, <2>3, WritesAndReturns DEF Quiet
  <1>5. CASE ~(n > MaxEscalations)
    <2> DEFINE y == suspended(e, "user", EscalationKey(n))
    <2>1. EscalationKey(n) \in QuestionKey
      BY <1>2 DEF EscalationKey, QuestionKey
    <2>2. Continues(y) /\ y.entries = e.entries /\ y.status = "waiting"
      BY <1>3, <2>1, SuspendedOK
    <2>3. RaiseThenWrite(EscalationKey(n), y)
      BY <1>5 DEF escalateByKey, e, a, n
    <2> HIDE DEF y
    <2> QED  BY <1>1, <1>3, <2>1, <2>2, <2>3, RaisesThenWrites
  <1> QED  BY <1>4, <1>5

\* A scan that takes a Turn on store s.
LEMMA RunsTurn ==
    ASSUME ConstantsAssumption, Inv, Quiet, NEW c, Continues(c), Storable(c), RunTurn(c)
    PROVE  Kept
  <1>1. TypeRest' /\ YesKnown'
    BY QuietRest DEF Inv, TypeOK, Books, TypeRest, YesKnown
  <1>2. turn' = NoTurn /\ turn'.calls = <<>> /\ pc' = "advance" /\ conv' = c /\ mem' = c
    BY DEF RunTurn, NoTurn
  <1>3. NoTurn \in [attempt : 1..LlmMaxAttempts, granted : SUBSET Ops, calls : Seq(Call),
                    auth : QuestionKey]
    BY RowTypes DEF NoTurn, ConstantsAssumption
  <1>4. TypeOK'
    BY <1>1, <1>2, <1>3 DEF TypeOK, TypeRest, Continues
  <1>5. c.entries \in Seq(Entry) /\ conv.entries \in Seq(Entry)
    BY DEF Continues, Conversation, Inv, TypeOK
  <1>6. Ctl'
    BY <1>2, <1>5, PrefixRefl DEF Ctl, Continues, CallsOK
  <1>7. IntentIsDurable' /\ BookingHasYes'
    BY <1>2, <1>5, BooksKept DEF Inv, TypeOK, Books, Continues, Quiet
  <1> QED  BY <1>1, <1>2, <1>4, <1>6, <1>7 DEF Inv, Books, YesKnown, Kept, Continues

\* The scans that resume a Conversation keep the invariant.
LEMMA ScanInv ==
    ASSUME ConstantsAssumption, Inv, Scan
    PROVE  Kept
  <1>0. Continues(conv) /\ Storable(conv)
    BY ConvContinues
  <1>1. CASE scanAnswered
    <2> DEFINE q == conv.question
               row == IF q \in DOMAIN questions THEN AnswerRow(q) ELSE Row("error")
               a == appendEntry(conv, row)
               r == [a EXCEPT !.status = "running", !.waitingFor = "", !.question = NoQuestion]
    <2>1. row \in Entry /\ row.kind \in {"answer", "error"}
      <3>1. q \in QuestionKey
        BY DEF Inv, TypeOK, Conversation
      <3>2. AnswerRow(q) \in Entry /\ AnswerRow(q).kind = "answer"
        BY <3>1, RowTypes
      <3>3. Row("error") \in Entry /\ Row("error").kind = "error"
        BY RowTypes
      <3> QED  BY <3>2, <3>3
    <2>2. RowOK(row, Len(conv.entries) + 1)
      <3>1. q \in QuestionKey
        BY DEF Inv, TypeOK, Conversation
      <3>2. row.kind = "answer" => row = AnswerRow(q)
        <4>1. Row("error").kind = "error"
          BY RowTypes
        <4> QED  BY <4>1
      <3>3. AnswerRow(q).q = q
        BY <3>1, RowTypes
      <3> HIDE DEF row
      <3> QED  BY <2>1, <3>2, <3>3 DEF RowOK
    <2> HIDE DEF row
    <2>3. Continues(a) /\ Unresolved(a.entries) = Unresolved(conv.entries)
      BY <1>0, <2>1, <2>2, AppendsOther
    <2> HIDE DEF a
    <2>4. Continues(r) /\ r.entries = a.entries /\ r.status = "running"
      BY <2>3, RowTypes DEF Continues, Conversation
    <2>5. RunTurn(r) /\ UNCHANGED <<questions, ledger, world>>
      BY <1>1 DEF scanAnswered, a, row
    <2> HIDE DEF r
    <2>6. Storable(r)
      BY <1>0, <2>3, <2>4 DEF Storable
    <2> QED  BY <2>4, <2>5, <2>6, RunsTurn DEF Quiet, world
  <1>2. CASE scanExpiredLeases
    <2> DEFINE r == [conv EXCEPT !.lease = "none"]
    <2>1. Continues(r) /\ Storable(r)
      BY <1>0 DEF Continues, Conversation, Storable
    <2> QED  BY <1>2, <2>1, RunsTurn DEF scanExpiredLeases, Quiet, world
  <1>3. CASE scanRunnable
    BY <1>0, <1>3, RunsTurn DEF scanRunnable, Quiet, world
  <1> QED  BY <1>1, <1>2, <1>3 DEF Scan

\* The guards before a Turn keep the invariant.
LEMMA GuardsInv ==
    ASSUME ConstantsAssumption, Inv, Guards
    PROVE  Kept
  <1>0. Continues(mem) /\ AtMostOne(Unresolved(mem.entries)) /\ mem = conv /\ pc = "advance"
    BY ConvContinues DEF Guards, endBecauseFull, UnknownAssistant, DisabledAssistant,
       TurnsExhausted, BeginTurn, Inv, Ctl, Storable
  <1>1. CASE endBecauseFull
    <2> DEFINE m == IF Len(mem.entries) < MaxEntries THEN appendEntry(mem, Row("error")) ELSE mem
               x == [m EXCEPT !.status = "failed", !.waitingFor = "",
                              !.lease = "none", !.question = NoQuestion]
    <2>1. Continues(m) /\ Unresolved(m.entries) = Unresolved(mem.entries)
      BY <1>0, AppendsRow
    <2>2. WriteAndReturn(x) /\ UNCHANGED <<questions, ledger, world>>
      BY <1>1 DEF endBecauseFull
    <2> HIDE DEF m
    <2>3. Continues(x) /\ x.entries = m.entries /\ x.status = "failed"
      BY <2>1, RowTypes DEF Continues, Conversation
    <2> HIDE DEF x
    <2>4. Storable(x)
      BY <1>0, <2>1, <2>3 DEF Storable
    <2> QED  BY <2>2, <2>3, <2>4, WritesAndReturns DEF Quiet, world
  <1>2. CASE UnknownAssistant
    <2>1. Continues(Claimed) /\ Claimed.entries = mem.entries
      BY <1>0 DEF Claimed, Continues, Conversation
    <2>2. escalateByKey(Claimed) /\ UNCHANGED <<ledger, world>>
      BY <1>2 DEF UnknownAssistant
    <2> QED  BY <1>0, <2>1, <2>2, Escalates DEF world
  <1>3. CASE DisabledAssistant
    <2> DEFINE x == [mem EXCEPT !.lease = "none"]
    <2>1. Continues(x) /\ Storable(x)
      BY <1>0, ConvContinues DEF Continues, Conversation, Storable
    <2>2. WriteAndReturn(x) /\ UNCHANGED <<questions, ledger, world>>
      BY <1>3 DEF DisabledAssistant
    <2> QED  BY <2>1, <2>2, WritesAndReturns DEF Quiet, world
  <1>4. CASE TurnsExhausted
    <2> DEFINE x == [Claimed EXCEPT !.maxTurns = @ + TurnGrant]
    <2>1. Continues(Claimed) /\ Claimed.entries = mem.entries
      BY <1>0 DEF Claimed, Continues, Conversation
    <2>2. Continues(x) /\ x.entries = mem.entries
      <3>1. Claimed \in Conversation
        BY <2>1 DEF Continues
      <3>2. TurnGrant \in Nat
        BY DEF ConstantsAssumption
      <3>3. Claimed.maxTurns + TurnGrant \in Nat
        <4>1. Claimed.maxTurns \in Nat
          BY <3>1 DEF Conversation
        <4> QED  BY <3>2, <4>1
      <3>4. x \in Conversation /\ x.entries = Claimed.entries
        BY <3>1, <3>3 DEF Conversation
      <3> HIDE DEF x
      <3> QED  BY <2>1, <3>4 DEF Continues
    <2>3. escalateByKey(x) /\ UNCHANGED <<ledger, world>>
      BY <1>4 DEF TurnsExhausted
    <2> HIDE DEF x
    <2> QED  BY <1>0, <2>2, <2>3, Escalates DEF world
  <1>5. CASE BeginTurn
    <2> DEFINE x == [Claimed EXCEPT !.status = "running", !.waitingFor = ""]
               t == [NoTurn EXCEPT !.granted = catalogue]
    <2>1. Continues(x) /\ x.entries = mem.entries /\ x.status = "running"
      BY <1>0 DEF Claimed, Continues, Conversation
    <2>2. t \in [attempt : 1..LlmMaxAttempts, granted : SUBSET Ops, calls : Seq(Call),
                 auth : QuestionKey]
          /\ t.calls = <<>>
      <3>1. catalogue \in SUBSET Ops /\ 1 \in 1..LlmMaxAttempts
        BY DEF ConstantsAssumption, Inv, TypeOK
      <3>2. NoQuestion \in QuestionKey
        BY RowTypes
      <3>3. t = [attempt |-> 1, granted |-> catalogue, calls |-> <<>>, auth |-> NoQuestion]
        BY DEF NoTurn
      <3>4. <<>> \in Seq(Call)
        OBVIOUS
      <3> HIDE DEF t
      <3> QED  BY <3>1, <3>2, <3>3, <3>4
    <2>3. mem' = x /\ turn' = t /\ conv' = conv /\ UNCHANGED <<questions, ledger, world>>
          /\ pc' = IF Unresolved(mem.entries) = {} THEN "thinking" ELSE "reconciling"
      BY <1>5 DEF BeginTurn
    <2> HIDE DEF x, t
    <2>4. Quiet /\ CallsOK(turn'.calls)
      BY <2>2, <2>3 DEF Quiet, world, CallsOK
    <2>5. CASE Unresolved(mem.entries) = {}
      BY <2>1, <2>2, <2>3, <2>4, <2>5, GoesOn
    <2>6. CASE Unresolved(mem.entries) # {}
      <3>1. pc' = "reconciling"
        BY <2>3, <2>6
      <3>2. TypeOK'
        BY <2>1, <2>2, <2>3, <3>1 DEF Inv, TypeOK, world, Continues
      <3>3. Ctl'
        BY <1>0, <2>1, <2>3, <2>4, <2>6, <3>1 DEF Inv, Ctl, Continues
      <3>4. Books'
        BY <2>3, <3>1 DEF Inv, Books, IntentIsDurable, BookingHasYes, world
      <3> QED  BY <1>0, <2>1, <2>3, <3>2, <3>3, <3>4 DEF Inv, Kept, Continues
    <2> QED  BY <2>5, <2>6
  <1> QED  BY <1>1, <1>2, <1>3, <1>4, <1>5 DEF Guards

\* Settling the interrupted call leaves nothing unresolved.
LEMMA ReconcileInv ==
    ASSUME ConstantsAssumption, Inv, reconcile
    PROVE  Kept
  <1> DEFINE u == unresolvedIntent(mem.entries)
             e == mem.entries
  <1>0. pc = "reconciling"
    BY DEF reconcile, ReconcileUnavailable, ReconcileRead, ReconcilePost, ReconcileQuestion
  <1>1. Continues(mem) /\ Unresolved(e) # {} /\ AtMostOne(Unresolved(e)) /\ mem.status # "done"
        /\ e \in Seq(Entry)
    BY <1>0 DEF Inv, TypeOK, Ctl, Continues, Conversation
  <1>2. u \in Unresolved(e) /\ u \in 1..Len(e) /\ e[u].key = u
    BY <1>1, FirstUnresolved DEF Inv, Ctl
  <1>3. Unresolved(e) \ {u} = {}
    BY <1>1, <1>2 DEF AtMostOne
  <1>4. Interrupted = e[u] /\ Interrupted \in Entry /\ Interrupted.key = u
    BY <1>1, <1>2 DEF Interrupted
  <1>5. Interrupted.op \in Ops \cup {"none"} /\ Interrupted.args \in Args \cup {NoArgs}
    BY <1>4 DEF Entry
  <1>6. ASSUME NEW a \in Args \cup {NoArgs}
        PROVE  LET m == appendEntry(mem, ResultRow(Interrupted.op, Interrupted.key, a))
               IN  Continues(m) /\ Unresolved(m.entries) = {} /\ m.status # "done"
    <2> DEFINE r == ResultRow(Interrupted.op, Interrupted.key, a)
    <2>1. r \in Entry /\ r.kind = "result" /\ r.key = u
      <3>1. Interrupted.key \in Nat /\ Interrupted.key = u
        BY <1>4 DEF Entry
      <3> QED  BY <1>5, <3>1, ResultRowType
    <2> HIDE DEF r
    <2>2. Continues(appendEntry(mem, r)) /\ appendEntry(mem, r).status = mem.status
          /\ Unresolved(appendEntry(mem, r).entries) = Unresolved(e) \ {u}
      BY <1>1, <1>2, <2>1, AppendsResult
    <2> QED  BY <1>1, <1>3, <2>2 DEF r
  <1>7. ASSUME NEW m, Continues(m), Unresolved(m.entries) = {}, m.status # "done",
               Write(m, "thinking", turn), UNCHANGED <<questions, ledger, world>>
        PROVE  Kept
    <2>1. Quiet
      BY <1>7 DEF Quiet, world
    <2>2. CASE Fits(m)
      <3>1. conv' = m /\ mem' = m /\ pc' = "thinking" /\ turn' = turn
        BY <1>7, <2>2 DEF Write
      <3> QED  BY <1>7, <2>1, <3>1, GoesOn DEF Inv, TypeOK, Ctl
    <2>3. CASE ~Fits(m)
      BY <1>7, <2>1, <2>3, Returns, ConvContinues DEF Write
    <2> QED  BY <2>2, <2>3
  <1>8. ASSUME NEW a \in Args \cup {NoArgs}, settle(a)
        PROVE  Kept
    BY <1>6, <1>7, <1>8 DEF settle
  <1>9. CASE ReconcileUnavailable \/ ReconcileRead \/ ReconcilePost
    BY <1>5, <1>8, <1>9 DEF ReconcileUnavailable, ReconcileRead, ReconcilePost
  <1>10. CASE ReconcileQuestion
    <2> DEFINE q == CallKey(Interrupted.key)
               m == appendEntry(mem, ResultRow(Interrupted.op, Interrupted.key, NoArgs))
               w == IF Interrupted.op = "ask" THEN "user" ELSE "tool"
    <2>0. UNCHANGED <<ledger, world>>
      BY <1>10 DEF ReconcileQuestion
    <2>1. Continues(m) /\ Unresolved(m.entries) = {} /\ m.status # "done"
      BY <1>6
    <2>2. q \in QuestionKey
      BY <1>1, <1>2, <1>4 DEF CallKey, QuestionKey
    <2>3. CASE escalateByKey(m)
      <3> HIDE DEF m
      <3> QED  BY <2>0, <2>1, <2>3, Escalates DEF world, AtMostOne
    <2>4. CASE Write(m, "thinking", turn) /\ UNCHANGED questions
      <3> HIDE DEF m
      <3> QED  BY <1>7, <2>0, <2>1, <2>4
    <2>5. CASE WriteAndReturn(suspended(m, w, q)) /\ UNCHANGED questions
      <3> HIDE DEF m, q
      <3>1. w \in {"user", "tool"}
        OBVIOUS
      <3> HIDE DEF w
      <3>2. Continues(suspended(m, w, q)) /\ Storable(suspended(m, w, q))
        BY <2>1, <2>2, <3>1, SuspendedOK DEF Storable, AtMostOne
      <3> QED  BY <2>0, <2>5, <3>2, WritesAndReturns DEF Quiet, world
    <2> QED  BY <1>10, <2>3, <2>4, <2>5 DEF ReconcileQuestion
  <1> QED  BY <1>9, <1>10 DEF reconcile

TurnType ==
    [attempt : 1..LlmMaxAttempts, granted : SUBSET Ops, calls : Seq(Call), auth : QuestionKey]

\* The model's answers and failures keep the invariant.
LEMMA LlmInv ==
    ASSUME ConstantsAssumption, Inv, Llm
    PROVE  Kept
  <1>0. pc = "thinking"
    BY DEF Llm, LlmTransientError, LlmError, LlmFinishes, LlmWantsTools
  <1>1. Continues(mem) /\ Unresolved(mem.entries) = {} /\ mem.status # "done"
        /\ turn \in TurnType /\ CallsOK(turn.calls)
    BY <1>0 DEF Inv, TypeOK, Ctl, Continues, TurnType
  <1>2. AtMostOne(Unresolved(mem.entries))
    BY <1>1 DEF AtMostOne
  <1> DEFINE counted == [mem EXCEPT !.turns = @ + 1]
  <1>3. Continues(counted) /\ counted.entries = mem.entries /\ counted.status = mem.status
    <2>1. mem \in Conversation
      BY <1>1 DEF Continues
    <2>2. mem.turns + 1 \in Nat
      <3>1. mem.turns \in Nat
        BY <2>1 DEF Conversation
      <3> QED  BY <3>1
    <2>3. counted \in Conversation /\ counted.entries = mem.entries /\ counted.status = mem.status
      BY <2>1, <2>2 DEF Conversation
    <2> HIDE DEF counted
    <2> QED  BY <1>1, <2>3 DEF Continues
  <1>4. CASE LlmTransientError
    <2> DEFINE m == appendEntry(mem, Row("error"))
    <2>1. Continues(m) /\ Unresolved(m.entries) = {} /\ m.status # "done"
      BY <1>1, AppendsRow
    <2>2. UNCHANGED <<ledger, world>>
      BY <1>4 DEF LlmTransientError
    <2>3. CASE turn.attempt < LlmMaxAttempts
      <3>1. mem' = m /\ turn' = [turn EXCEPT !.attempt = @ + 1] /\ UNCHANGED <<conv, pc, questions>>
        BY <1>4, <2>3 DEF LlmTransientError
      <3>2. turn' \in TurnType /\ turn'.calls = turn.calls
        <4>1. turn.attempt \in 1..LlmMaxAttempts /\ LlmMaxAttempts \in Nat
          BY <1>1 DEF TurnType, ConstantsAssumption
        <4>2. turn.attempt + 1 \in 1..LlmMaxAttempts
          BY <2>3, <4>1
        <4> QED  BY <1>1, <3>1, <4>2 DEF TurnType
      <3> HIDE DEF m
      <3> QED  BY <1>0, <1>1, <2>1, <2>2, <3>1, <3>2, GoesOn DEF Quiet, world, TurnType
    <2>4. CASE ~(turn.attempt < LlmMaxAttempts)
      <3>1. escalateByKey(m)
        BY <1>4, <2>4 DEF LlmTransientError
      <3> HIDE DEF m
      <3> QED  BY <2>1, <2>2, <3>1, Escalates DEF world, AtMostOne
    <2> QED  BY <2>3, <2>4
  <1>5. CASE LlmError
    <2>1. escalateByKey(mem) \/ escalateByKey(counted)
      BY <1>5 DEF LlmError
    <2>2. UNCHANGED <<ledger, world>>
      BY <1>5 DEF LlmError
    <2> HIDE DEF counted
    <2> QED  BY <1>1, <1>2, <1>3, <2>1, <2>2, Escalates DEF world
  <1>6. CASE LlmFinishes
    <2> DEFINE a == appendEntry(mem, Row("assistant"))
               x == [a EXCEPT !.turns = @ + 1, !.status = "done", !.lease = "none"]
    <2>1. Continues(a) /\ Unresolved(a.entries) = {}
      BY <1>1, AppendsRow
    <2>2. WriteAndReturn(x) /\ UNCHANGED <<questions, ledger, world>>
      BY <1>6 DEF LlmFinishes
    <2> HIDE DEF a
    <2>3. a \in Conversation
      BY <2>1 DEF Continues
    <2>4. a.turns + 1 \in Nat
      <3>1. a.turns \in Nat
        BY <2>3 DEF Conversation
      <3> QED  BY <3>1
    <2>5. x \in Conversation /\ x.entries = a.entries
      BY <2>3, <2>4 DEF Conversation
    <2> HIDE DEF x
    <2>6. Continues(x) /\ Storable(x)
      BY <2>1, <2>5 DEF Continues, Storable, AtMostOne
    <2> QED  BY <2>2, <2>6, WritesAndReturns DEF Quiet, world
  <1>7. CASE LlmWantsTools
    <2>1. PICK r \in Replies : turn' = [turn EXCEPT !.calls = r]
      BY <1>7 DEF LlmWantsTools
    <2>2. mem' = counted /\ pc' = "calling" /\ UNCHANGED <<conv, questions, ledger, world>>
      BY <1>7 DEF LlmWantsTools
    <2>3. r \in Seq(Call) /\ CallsOK(r)
      BY DEF ConstantsAssumption, CallsOK
    <2>4. turn' \in TurnType /\ turn'.calls = r
      BY <1>1, <2>1, <2>3 DEF TurnType
    <2> HIDE DEF counted
    <2> QED  BY <1>1, <1>3, <2>2, <2>3, <2>4, GoesOn DEF Quiet, world, TurnType
  <1> QED  BY <1>4, <1>5, <1>6, <1>7 DEF Llm

\* Writing a suspended Conversation back keeps the invariant.
LEMMA WriteBackInv ==
    ASSUME ConstantsAssumption, Inv, WriteBack
    PROVE  Kept
  <1>1. Continues(mem) /\ Storable(mem)
    BY DEF WriteBack, Inv, TypeOK, Ctl, Continues, Storable
  <1> QED  BY <1>1, WritesAndReturns DEF WriteBack, Quiet, world

\* The write-ahead of a tool intent puts the call in hand.
LEMMA WriteIntentInv ==
    ASSUME ConstantsAssumption, Inv, WriteIntent
    PROVE  Kept
  <1> DEFINE c == Head(turn.calls)
             n == Len(mem.entries) + 1
             r == IntentRow(c, n)
             m == appendEntry(mem, r)
             next == IF c.op \notin turn.granted THEN "refusing"
                     ELSE IF c.op = "post" THEN "gating" ELSE "executing"
  <1>1. Continues(mem) /\ Unresolved(mem.entries) = {} /\ mem.status # "done"
        /\ mem.entries \in Seq(Entry) /\ conv.entries \in Seq(Entry)
        /\ Prefix(conv.entries, mem.entries)
    BY DEF WriteIntent, Inv, TypeOK, Ctl, Continues, Conversation
  <1>2. turn.calls \in Seq(Call) /\ turn.calls # <<>> /\ c \in Call
    BY DEF WriteIntent, Inv, TypeOK
  <1>3. n \in Nat /\ n = Len(mem.entries) + 1
    BY <1>1
  <1>4. r \in Entry /\ r.kind = "intent" /\ r.key = n
    BY <1>2, <1>3, RowTypes
  <1>5. Write(m, next, turn) /\ UNCHANGED <<questions, ledger, world>>
    BY DEF WriteIntent
  <1> HIDE DEF r, n
  <1> DEFINE f == Append(mem.entries, r)
  <1>6. f \in Seq(Entry) /\ Prefix(conv.entries, f) /\ Len(f) = n /\ f[n] = r
    BY <1>1, <1>3, <1>4, AppendPrefix
  <1>7. RowOK(r, n)
    BY <1>4 DEF RowOK
  <1>8. RowsOK(f) /\ Unresolved(f) = {n}
    BY <1>1, <1>3, <1>4, <1>7, AppendRowsOK, AppendIntent DEF Continues
  <1>9. m \in Conversation /\ m.entries = f /\ m.status = mem.status
    <2>1. mem \in Conversation
      BY <1>1 DEF Continues
    <2> HIDE DEF f
    <2>2. m = [mem EXCEPT !.entries = f]
      BY DEF appendEntry, f
    <2> QED  BY <1>6, <2>1, <2>2 DEF Conversation
  <1> HIDE DEF m, f
  <1>10. CASE Fits(m)
    <2>1. conv' = m /\ mem' = m /\ pc' = next /\ turn' = turn
      BY <1>5, <1>10 DEF Write
    <2>2. next \in {"refusing", "gating", "executing"} /\ (next = "gating" => c.op = "post")
          /\ (next = "executing" => c.op # "post")
      OBVIOUS
    <2> HIDE DEF next
    <2>3. TypeOK'
      BY <1>5, <1>9, <2>1, <2>2 DEF Inv, TypeOK, world
    <2>4. Current' = c
      BY <2>1 DEF Current
    <2>5. InHand'
      <3>1. n > 0
        BY <1>1, <1>3
      <3> QED  BY <1>2, <1>6, <1>8, <1>9, <2>1, <2>4, <3>1 DEF InHand, r
    <2>6. Storable(m)
      BY <1>1, <1>8, <1>9 DEF Storable, AtMostOne
    <2>7. Ctl'
      BY <1>1, <1>6, <1>8, <1>9, <2>1, <2>2, <2>4, <2>5, <2>6, PrefixRefl DEF Ctl, Inv
    <2>8. ASSUME NEW b \in ledger  PROVE b.key < n
      <3>1. b.key \in 1..Len(conv.entries)
        BY Zenon DEF Inv, Books, IntentIsDurable
      <3>2. Len(conv.entries) <= Len(mem.entries)
        BY <1>1 DEF Prefix
      <3> QED  BY <1>1, <1>3, <3>1, <3>2
    <2>9. IntentIsDurable' /\ BookingHasYes'
      BY <1>1, <1>5, <1>6, <1>9, <2>1, BooksKept DEF Inv, TypeOK, Books, world
    <2>10. Books'
      BY <1>5, <1>6, <1>9, <2>1, <2>2, <2>4, <2>8, <2>9 DEF Inv, Books, world
    <2> QED  BY <1>6, <1>9, <2>1, <2>3, <2>7, <2>10 DEF Inv, Kept
  <1>11. CASE ~Fits(m)
    BY <1>5, <1>11, Returns, ConvContinues DEF Write, Quiet, world
  <1> QED  BY <1>10, <1>11

\* What a step with a call in hand starts from.
LEMMA InHandFacts ==
    ASSUME Inv, pc \in {"refusing", "gating", "executing"}
    PROVE  /\ Continues(mem)
           /\ mem.entries \in Seq(Entry)
           /\ CurrentKey = Len(mem.entries)
           /\ CurrentKey \in Nat /\ CurrentKey \in 1..Len(mem.entries)
           /\ Current \in Call
           /\ Current.op = "post" => Current.args \in Args
           /\ Unresolved(mem.entries) = {CurrentKey}
           /\ mem.status # "done"
           /\ conv = mem
           /\ Tail(turn.calls) \in Seq(Call)
           /\ CallsOK(Tail(turn.calls))
           /\ turn \in TurnType
  <1>1. InHand
    BY DEF Inv, Ctl
  <1>2. Continues(mem) /\ mem.entries \in Seq(Entry) /\ mem.status # "done" /\ turn \in TurnType
    BY DEF Inv, TypeOK, Ctl, Continues, Conversation, TurnType
  <1>3. turn.calls \in Seq(Call) /\ turn.calls # <<>> /\ CallsOK(turn.calls)
    BY <1>1 DEF InHand, Inv, TypeOK, Ctl
  <1>4. Current = turn.calls[1] /\ 1 \in 1..Len(turn.calls) /\ Current \in Call
    BY <1>3 DEF Current
  <1>5. Current.op = "post" => Current.args \in Args
    BY <1>3, <1>4 DEF CallsOK
  <1>6. Tail(turn.calls) \in Seq(Call) /\ CallsOK(Tail(turn.calls))
    BY <1>3 DEF CallsOK
  <1>7. Len(mem.entries) \in Nat /\ Len(mem.entries) > 0
    BY <1>1, <1>2 DEF InHand
  <1>8. CurrentKey = Len(mem.entries)
    <2>1. IntentRow(Current, Len(mem.entries)).key = Len(mem.entries)
      BY <1>4, <1>7, RowTypes
    <2> QED  BY <1>1, <2>1 DEF InHand, CurrentKey
  <1> QED  BY <1>1, <1>2, <1>4, <1>5, <1>6, <1>7, <1>8 DEF InHand

\* The copy with the result of the call in hand.
Recorded(a) == appendEntry(mem, ResultRow(Current.op, CurrentKey, a))

\* Recording its result resolves the call in hand.
LEMMA RecordedOK ==
    ASSUME Inv, pc \in {"refusing", "gating", "executing"}, NEW a \in Args \cup {NoArgs}
    PROVE  /\ Continues(Recorded(a))
           /\ Unresolved(Recorded(a).entries) = {}
           /\ Recorded(a).status # "done"
           /\ Recorded(a).entries = Append(mem.entries, ResultRow(Current.op, CurrentKey, a))
  <1> DEFINE r == ResultRow(Current.op, CurrentKey, a)
  <1>1. r \in Entry /\ r.kind = "result" /\ r.key = CurrentKey
    <2>1. Current \in Call /\ CurrentKey \in Nat
      BY InHandFacts
    <2>2. Current.op \in Ops \cup {"none"}
      BY <2>1 DEF Call
    <2> QED  BY <2>1, <2>2, ResultRowType
  <1> HIDE DEF r
  <1>2. Continues(appendEntry(mem, r)) /\ Unresolved(appendEntry(mem, r).entries) = {}
        /\ appendEntry(mem, r).status # "done"
        /\ appendEntry(mem, r).entries = Append(mem.entries, r)
    BY <1>1, InHandFacts, AppendsResult
  <1> QED  BY <1>2 DEF Recorded, r

\* Going on with the next call keeps the invariant.
LEMMA Records ==
    ASSUME ConstantsAssumption, Inv, pc \in {"refusing", "gating", "executing"},
           NEW a \in Args \cup {NoArgs}, Record(a), Quiet
    PROVE  Kept
  <1>1. mem' = Recorded(a) /\ pc' = "calling" /\ conv' = conv
        /\ turn' = [turn EXCEPT !.calls = Tail(@), !.auth = NoQuestion]
    BY DEF Record, Recorded
  <1>2. turn' \in TurnType /\ turn'.calls = Tail(turn.calls)
    <2>1. turn \in TurnType /\ Tail(turn.calls) \in Seq(Call) /\ NoQuestion \in QuestionKey
      BY InHandFacts, RowTypes
    <2> QED  BY <1>1, <2>1 DEF TurnType
  <1>3. CallsOK(turn'.calls)
    BY <1>2, InHandFacts
  <1> QED  BY <1>1, <1>2, <1>3, RecordedOK, GoesOn DEF TurnType

\* A pending result resolves the call in hand, too.
LEMMA PendingOK ==
    ASSUME Inv, pc \in {"refusing", "gating", "executing"},
           NEW w \in {"user", "tool"}, NEW q \in QuestionKey
    PROVE  /\ Continues(Pending(mem, w, q))
           /\ Unresolved(Pending(mem, w, q).entries) = {}
           /\ Pending(mem, w, q).status = "waiting"
           /\ Pending(mem, w, q).entries = Recorded(NoArgs).entries
  BY RecordedOK, SuspendedOK DEF Pending, Recorded

\* The approval gate lets a call through only on an unspent yes.
LEMMA GateInv ==
    ASSUME ConstantsAssumption, Inv, gateOnApproval
    PROVE  Kept
  <1> DEFINE e == mem.entries
             a == Current.args
             state == findApproval(e, a)
             q == e[LastRequest(e, a)].q
  <1>0. pc = "gating" /\ Current.op = "post" /\ UNCHANGED <<ledger, world>>
    BY DEF gateOnApproval, Inv, Ctl
  <1>1. e \in Seq(Entry) /\ a \in Args
    BY <1>0, InHandFacts
  <1>2. CASE state = "declined" /\ Record(NoArgs) /\ UNCHANGED questions
    BY <1>0, <1>2, Records DEF Quiet, world
  <1>3. ASSUME state \in {"valid", "waiting"}
        PROVE  q \in QuestionKey /\ q.kind = "approval" /\ q.args = a
               /\ q \in DOMAIN questions
               /\ (state = "valid" => questions[q] = "yes" /\ AnswersTo(e, q) # {}
                                      /\ ~Spent(e, a, q))
    <2>1. approvalRequestsFor(e, a) # {} /\ q \in DOMAIN questions
          /\ (state = "valid" => questions[q] \notin {"no", "text", "open"}
                                 /\ AnswersTo(e, q) # {} /\ ~Spent(e, a, q))
      BY <1>3 DEF findApproval
    <2>2. LastRequest(e, a) \in 1..Len(e) /\ e[LastRequest(e, a)].kind = "request"
          /\ e[LastRequest(e, a)].args = a
      BY <1>1, <2>1, LastRequestExists
    <2>3. e[LastRequest(e, a)] \in Entry
      BY <1>1, <2>2
    <2>4. q \in QuestionKey
      BY <2>3 DEF Entry
    <2>5. RowOK(e[LastRequest(e, a)], LastRequest(e, a))
      BY <2>2 DEF Inv, Ctl, RowsOK
    <2>6. q.kind = "approval" /\ q.args = a
      BY <2>2, <2>5 DEF RowOK
    <2>7. questions[q] \in Answered \cup {"open"}
      BY <2>1 DEF Inv, TypeOK
    <2> HIDE DEF q, state
    <2> QED  BY <2>1, <2>4, <2>6, <2>7 DEF Answered
  <1>4. CASE state = "waiting" /\ WriteAndReturn(Pending(mem, "user", q)) /\ UNCHANGED questions
    <2>1. q \in QuestionKey
      BY <1>3, <1>4
    <2> HIDE DEF q
    <2>2. Continues(Pending(mem, "user", q)) /\ Storable(Pending(mem, "user", q))
      BY <1>0, <2>1, PendingOK DEF Storable, AtMostOne
    <2> QED  BY <1>0, <1>4, <2>2, WritesAndReturns DEF Quiet, world
  <1>5. CASE state = "valid" /\ turn' = [turn EXCEPT !.auth = q] /\ pc' = "executing"
             /\ UNCHANGED <<conv, mem, questions>>
    <2>1. q \in QuestionKey /\ q \in yeses /\ q.args = a /\ AnswersTo(e, q) # {} /\ ~Spent(e, a, q)
      <3>1. q.kind = "approval" /\ questions[q] = "yes" /\ q \in DOMAIN questions
        BY <1>3, <1>5
      <3>2. q \in yeses
        BY <3>1 DEF Inv, Books
      <3> QED  BY <1>3, <1>5, <3>2
    <2> HIDE DEF q
    <2>2. turn' \in TurnType /\ turn'.calls = turn.calls /\ turn'.auth = q
      <3>1. turn \in TurnType
        BY <1>0, InHandFacts
      <3> QED  BY <1>5, <2>1, <3>1 DEF TurnType
    <2>3. TypeOK'
      BY <1>0, <1>5, <2>2 DEF Inv, TypeOK, world, TurnType
    <2>4. Current' = Current /\ InHand'
      BY <1>0, <1>5, <2>2 DEF Current, InHand, Inv, Ctl
    <2>5. Ctl'
      BY <1>0, <1>5, <2>2, <2>4 DEF Inv, Ctl
    <2>6. Authorised'
      BY <1>0, <1>5, <2>1, <2>2, <2>4 DEF Authorised, world, AnswersTo, Spent, FirstAnswer
    <2>7. Books'
      BY <1>0, <1>5, <2>6 DEF Inv, Books, IntentIsDurable, BookingHasYes, world
    <2>8. Prefix(conv.entries, conv'.entries)
      BY <1>0, <1>1, <1>5, InHandFacts, PrefixRefl
    <2> QED  BY <2>3, <2>5, <2>7, <2>8 DEF Inv, Kept
  <1> QED  BY <1>2, <1>4, <1>5 DEF gateOnApproval

\* Raising an approval keeps the invariant.
LEMMA RaiseApprovalInv ==
    ASSUME ConstantsAssumption, Inv, raiseApproval
    PROVE  Kept
  <1> DEFINE e == mem.entries
             a == Current.args
             q == ApprovalKey(e, a)
             r == RequestRow(a, q)
             s == ResultRow("post", CurrentKey, NoArgs)
             p == Pending(mem, "user", q)
             f == Append(Append(e, r), s)
             c == [p EXCEPT !.entries = f]
  <1>0. pc = "gating" /\ Current.op = "post" /\ UNCHANGED <<ledger, world>>
        /\ e \in Seq(Entry) /\ a \in Args /\ conv.entries \in Seq(Entry)
        /\ CurrentKey = Len(e) /\ CurrentKey \in Nat /\ Len(e) > 0 /\ Unresolved(e) = {CurrentKey}
        /\ RowsOK(e) /\ Prefix(conv.entries, e)
    <2>1. pc = "gating" /\ UNCHANGED <<ledger, world>>
      BY DEF raiseApproval
    <2>2. Current.op = "post" /\ RowsOK(e) /\ Prefix(conv.entries, e)
          /\ conv.entries \in Seq(Entry)
      BY <2>1 DEF Inv, TypeOK, Ctl, Conversation
    <2>3. e \in Seq(Entry) /\ CurrentKey = Len(e) /\ CurrentKey \in Nat
          /\ CurrentKey \in 1..Len(e) /\ a \in Args /\ Unresolved(e) = {CurrentKey}
      BY <2>1, <2>2, InHandFacts
    <2>4. Len(e) > 0
      BY <2>3
    <2> QED  BY <2>1, <2>2, <2>3, <2>4
  <1>1. q \in QuestionKey /\ q.kind = "approval" /\ q.args = a
    BY <1>0, ApprovalKeyType
  <1> HIDE DEF q
  <1>2. r \in Entry /\ r.kind = "request" /\ r.args = a /\ r.q = q
    BY <1>0, <1>1, RowTypes
  <1>3. s \in Entry /\ s.kind = "result" /\ s.key = CurrentKey
    <2>1. "post" \in Ops \cup {"none"}
      BY DEF Ops
    <2> QED  BY <1>0, <2>1, ResultRowType
  <1>4. e \o <<r, s>> = f
    <2> HIDE DEF r, s
    <2> QED  BY <1>0, <1>2, <1>3
  <1>5. RaiseThenWrite(q, c)
    BY <1>4 DEF raiseApproval, RaiseThenWrite, q
  <1>6. p \in Conversation /\ p.status = "waiting"
    BY <1>0, <1>1, PendingOK DEF Continues
  <1> HIDE DEF r, s, p
  <1> DEFINE g == Append(e, r)
  <1>7. RowOK(r, Len(e) + 1)
    BY <1>1, <1>2 DEF RowOK
  <1>8. g \in Seq(Entry) /\ Prefix(conv.entries, g) /\ Len(g) = Len(e) + 1
    BY <1>0, <1>2, AppendPrefix
  <1>9. RowsOK(g) /\ Unresolved(g) = {CurrentKey}
    BY <1>0, <1>2, <1>7, AppendRowsOK, AppendOther
  <1>10. f = Append(g, s)
    OBVIOUS
  <1> HIDE DEF f, g
  <1>11. RowOK(s, Len(g) + 1)
    BY <1>0, <1>3, <1>8 DEF RowOK
  <1>12. f \in Seq(Entry) /\ Prefix(conv.entries, f)
    BY <1>0, <1>3, <1>8, <1>10, AppendPrefix
  <1>13. RowsOK(f) /\ Unresolved(f) = {}
    BY <1>3, <1>8, <1>9, <1>10, <1>11, AppendRowsOK, AppendResult
  <1>14. c \in Conversation /\ c.entries = f /\ c.status = "waiting"
    BY <1>6, <1>12 DEF Conversation
  <1> HIDE DEF c
  <1>15. Continues(c) /\ AtMostOne(Unresolved(c.entries))
    BY <1>12, <1>13, <1>14 DEF Continues, AtMostOne
  <1> QED  BY <1>0, <1>1, <1>5, <1>14, <1>15, RaisesThenWrites DEF world

\* A posting that is booked: the books and the transcript change together.
LEMMA Books_ExecutePost ==
    ASSUME ConstantsAssumption, Inv, pc = "executing", Current.op = "post",
           ledger' = ledger \cup {[key |-> CurrentKey, args |-> Current.args, auth |-> turn.auth]},
           NEW a \in Args \cup {NoArgs}, Record(a), UNCHANGED <<questions, world>>
    PROVE  Kept
  <1> DEFINE b == [key |-> CurrentKey, args |-> Current.args, auth |-> turn.auth]
             n == Len(mem.entries)
  <1>1. mem' = Recorded(a) /\ pc' = "calling" /\ conv' = conv
        /\ turn' = [turn EXCEPT !.calls = Tail(@), !.auth = NoQuestion]
    BY DEF Record, Recorded
  <1>2. turn' \in TurnType /\ turn'.calls = Tail(turn.calls) /\ CallsOK(turn'.calls)
    <2>1. turn \in TurnType /\ Tail(turn.calls) \in Seq(Call) /\ CallsOK(Tail(turn.calls))
          /\ NoQuestion \in QuestionKey
      BY InHandFacts, RowTypes
    <2> QED  BY <1>1, <2>1 DEF TurnType
  <1>3. Current.args \in Args /\ CurrentKey = n /\ n \in Nat /\ n > 0 /\ conv = mem
        /\ turn.auth \in QuestionKey /\ Current \in Call /\ mem.entries \in Seq(Entry)
    <2>1. turn \in TurnType /\ CurrentKey \in 1..Len(mem.entries)
      BY InHandFacts
    <2>2. turn.auth \in QuestionKey
      BY <2>1 DEF TurnType
    <2> QED  BY <2>1, <2>2, InHandFacts
  <1>4. b \in Booking
    BY <1>3 DEF Booking
  <1>5. Continues(Recorded(a)) /\ Unresolved(Recorded(a).entries) = {}
        /\ Recorded(a).status # "done"
    BY RecordedOK
  <1>6. TypeOK'
    BY <1>1, <1>2, <1>4, <1>5 DEF Inv, TypeOK, Continues, world, TurnType
  <1>7. Ctl'
    BY <1>1, <1>2, <1>5 DEF Inv, Ctl, Continues
  <1>8. Authorised
    BY DEF Inv, Books
  <1>9. IntentIsDurable'
    <2>1. conv.entries[n] = IntentRow(Current, n)
      BY <1>3 DEF Inv, Ctl, InHand
    <2>2. IntentRow(Current, n) = IntentRow([op |-> "post", args |-> Current.args], n)
      BY DEF IntentRow
    <2>3. b.key \in 1..Len(conv.entries) /\ conv.entries[b.key] = IntentRow([op |-> "post", args |-> b.args], b.key)
      BY <1>3, <2>1, <2>2
    <2> HIDE DEF b
    <2>4. ledger' = ledger \cup {b}
      BY DEF b
    <2> QED  BY <1>1, <2>3, <2>4 DEF Inv, Books, IntentIsDurable
  <1>10. BookingHasYes'
    <2>1. PICK i \in AnswersTo(mem.entries, turn.auth) : TRUE
      BY <1>8 DEF Authorised
    <2>2. i \in 1..n /\ mem.entries[i].kind = "answer" /\ mem.entries[i].q = turn.auth
      BY <2>1 DEF AnswersTo, Positions
    <2>3. mem.entries[n].kind = "intent"
      BY <1>3, RowTypes DEF Inv, Ctl, InHand
    <2>4. i \in 1..(n - 1)
      BY <1>3, <2>2, <2>3
    <2>5. mem.entries[i] = AnswerRow(turn.auth)
      BY <2>2 DEF Inv, Ctl, RowsOK, RowOK
    <2>6. b.auth \in yeses /\ b.auth.args = b.args
          /\ \E k \in 1..(b.key - 1) : conv.entries[k] = AnswerRow(b.auth)
      BY <1>3, <1>8, <2>4, <2>5 DEF Authorised
    <2> HIDE DEF b
    <2>7. ledger' = ledger \cup {b}
      BY DEF b
    <2> QED  BY <1>1, <2>6, <2>7 DEF Inv, Books, BookingHasYes, world
  <1>11. Inv'
    BY <1>1, <1>6, <1>7, <1>9, <1>10 DEF Inv, Books, world
  <1> QED  BY <1>1, <1>3, <1>11, PrefixRefl DEF Kept

\* Executing a posting keeps the invariant, booked or not.
LEMMA ExecutePostInv ==
    ASSUME ConstantsAssumption, Inv, ExecutePost
    PROVE  Kept
  <1>1. pc = "executing" /\ Current.op = "post" /\ UNCHANGED <<questions, world>>
    BY DEF ExecutePost
  <1>2. Current.args \in Args
    BY <1>1, InHandFacts
  <1>3. CASE UNCHANGED ledger
    <2>1. Quiet
      BY <1>1, <1>3 DEF Quiet, world
    <2>2. Record(Current.args) \/ Record(NoArgs)
      BY DEF ExecutePost
    <2> QED  BY <1>1, <1>2, <2>1, <2>2, Records
  <1>4. CASE ledger' = ledger \cup {[key |-> CurrentKey, args |-> Current.args, auth |-> turn.auth]}
    <2>1. Record(Current.args) \/ Record(NoArgs)
      BY DEF ExecutePost
    <2> QED  BY <1>1, <1>2, <1>4, <2>1, Books_ExecutePost
  <1> QED  BY <1>3, <1>4 DEF ExecutePost

\* Executing ui.askUser or a Manual Connector keeps the invariant.
LEMMA ExecuteQuestionInv ==
    ASSUME ConstantsAssumption, Inv, ExecuteQuestion
    PROVE  Kept
  <1> DEFINE q == CallKey(CurrentKey)
             w == IF Current.op = "ask" THEN "user" ELSE "tool"
  <1>1. pc = "executing" /\ UNCHANGED <<ledger, world>>
    BY DEF ExecuteQuestion
  <1>2. q \in QuestionKey
    <2>1. CurrentKey \in Nat
      BY <1>1, InHandFacts
    <2> QED  BY <2>1 DEF CallKey, QuestionKey
  <1>3. CASE RaiseThenWrite(q, Pending(mem, w, q))
    <2>1. w \in {"user", "tool"}
      OBVIOUS
    <2> HIDE DEF q, w
    <2>2. Continues(Pending(mem, w, q)) /\ Unresolved(Pending(mem, w, q).entries) = {}
          /\ Pending(mem, w, q).status = "waiting"
      BY <1>1, <1>2, <2>1, PendingOK
    <2> QED  BY <1>1, <1>2, <1>3, <2>2, RaisesThenWrites DEF world, AtMostOne
  <1>4. CASE Record(NoArgs) /\ UNCHANGED questions
    BY <1>1, <1>4, Records DEF Quiet, world
  <1>5. CASE Raise(q) /\ Record(NoArgs)
    <2> HIDE DEF q
    <2> QED  BY <1>1, <1>2, <1>5, Records DEF Quiet, world
  <1> QED  BY <1>3, <1>4, <1>5 DEF ExecuteQuestion

\* Every step of a tool call keeps the invariant.
LEMMA CallsInv ==
    ASSUME ConstantsAssumption, Inv, Calls
    PROVE  Kept
  <1>1. CASE RefuseUnresolved
    BY <1>1, Records DEF RefuseUnresolved, Quiet, world
  <1>2. CASE ExecuteRead
    BY <1>2, Records DEF ExecuteRead, Quiet, world
  <1>3. CASE EndTurn
    <2> DEFINE x == [mem EXCEPT !.lease = "none", !.status = "running"]
    <2>1. mem \in Conversation /\ Continues(mem) /\ Unresolved(mem.entries) = {}
      BY <1>3 DEF EndTurn, Inv, TypeOK, Ctl, Continues
    <2>2. x \in Conversation /\ x.entries = mem.entries
      BY <2>1 DEF Conversation
    <2>3. WriteAndReturn(x) /\ UNCHANGED <<questions, ledger, world>>
      BY <1>3 DEF EndTurn
    <2> HIDE DEF x
    <2>4. Continues(x) /\ Storable(x)
      BY <2>1, <2>2 DEF Continues, Storable, AtMostOne
    <2> QED  BY <2>3, <2>4, WritesAndReturns DEF Quiet, world
  <1> QED
    BY <1>1, <1>2, <1>3, WriteIntentInv, GateInv, RaiseApprovalInv, ExecutePostInv,
       ExecuteQuestionInv DEF Calls

\* A crash drops the copy; the store satisfies the invariant by itself.
LEMMA CrashInv ==
    ASSUME ConstantsAssumption, Inv, Crash
    PROVE  Kept
  <1> SUFFICES ASSUME Return(conv), UNCHANGED <<questions, ledger, catalogue, assistant, yeses, edits>>,
                      crashes' = crashes + 1
               PROVE  Kept
    BY DEF Crash
  <1>1. turn' = NoTurn /\ turn'.calls = <<>> /\ pc' = "idle" /\ conv' = conv /\ mem' = conv
    BY DEF Return, NoTurn
  <1>2. NoTurn \in TurnType
    BY RowTypes DEF NoTurn, TurnType, ConstantsAssumption
  <1>3. TypeOK'
    BY <1>1, <1>2 DEF Inv, TypeOK, TurnType
  <1>4. Continues(conv) /\ Storable(conv)
    BY ConvContinues
  <1>5. Ctl'
    BY <1>1, <1>4 DEF Ctl, Continues, CallsOK
  <1>6. Books'
    BY <1>1 DEF Inv, Books, IntentIsDurable, BookingHasYes
  <1> QED  BY <1>1, <1>3, <1>4, <1>5, <1>6 DEF Inv, Kept, Continues

\* The User changes questions and switches, never the Conversation.
LEMMA UserInv ==
    ASSUME Inv, User
    PROVE  Kept
  <1>0. UNCHANGED <<conv, mem, pc, turn, ledger, crashes>> /\ edits' \in Nat
    <2>1. UNCHANGED <<conv, mem, pc, turn, ledger, crashes>> /\ edits' = edits + 1
      BY DEF User, UserAnswers, UserDeletes, UserSwitches, UserSetsAssistant
    <2>2. edits \in Nat
      BY DEF Inv, TypeOK
    <2> QED  BY <2>1, <2>2
  <1>1. /\ DOMAIN questions' \subseteq QuestionKey
        /\ \A q \in DOMAIN questions' : questions'[q] \in Answered \cup {"open"}
        /\ catalogue' \subseteq Ops
        /\ assistant' \in {"enabled", "disabled", "gone"}
        /\ yeses' \subseteq QuestionKey /\ yeses \subseteq yeses'
        /\ YesKnown'
    <2>1. ASSUME NEW q \in DOMAIN questions, NEW a \in Answered, UserAnswers(q, a)
          PROVE  <1>1!:
      <3>1. DOMAIN questions' = DOMAIN questions
            /\ \A k \in DOMAIN questions : questions'[k] = IF k = q THEN a ELSE questions[k]
        BY <2>1 DEF UserAnswers
      <3>2. q \in QuestionKey
        BY DEF Inv, TypeOK
      <3>3. yeses' = (IF a = "yes" /\ q.kind = "approval" THEN yeses \cup {q} ELSE yeses)
            /\ UNCHANGED <<catalogue, assistant>>
        BY <2>1 DEF UserAnswers
      <3> QED  BY <3>1, <3>2, <3>3 DEF Inv, TypeOK, Books, YesKnown
    <2>2. ASSUME NEW q \in DOMAIN questions, UserDeletes(q)
          PROVE  <1>1!:
      BY <2>2 DEF UserDeletes, Inv, TypeOK, Books, YesKnown
    <2>3. ASSUME NEW op \in Ops, UserSwitches(op)
          PROVE  <1>1!:
      BY <2>3 DEF UserSwitches, Inv, TypeOK, Books, YesKnown
    <2>4. ASSUME NEW a \in {"enabled", "disabled", "gone"}, UserSetsAssistant(a)
          PROVE  <1>1!:
      BY <2>4 DEF UserSetsAssistant, Inv, TypeOK, Books, YesKnown
    <2> QED  BY <2>1, <2>2, <2>3, <2>4 DEF User
  <1>2. TypeOK'
    BY <1>0, <1>1 DEF Inv, TypeOK
  <1>3. Ctl'
    BY <1>0 DEF Inv, Ctl, InHand, Current
  <1>4. pc = "executing" /\ Current.op = "post" => Authorised'
    BY <1>0, <1>1 DEF Inv, Books, Authorised, Current
  <1>5. IntentIsDurable' /\ BookingHasYes'
    BY <1>0, <1>1 DEF Inv, Books, IntentIsDurable, BookingHasYes
  <1>6. Books'
    BY <1>0, <1>1, <1>4, <1>5 DEF Inv, Books, YesKnown, Current
  <1>7. conv.entries \in Seq(Entry)
    BY DEF Inv, TypeOK, Conversation
  <1> QED  BY <1>0, <1>2, <1>3, <1>6, <1>7, PrefixRefl DEF Inv, Kept

\* A lease running out keeps the invariant.
LEMMA LeaseExpiresInv ==
    ASSUME ConstantsAssumption, Inv, LeaseExpires
    PROVE  Kept
  <1> DEFINE x == [conv EXCEPT !.lease = "expired"]
  <1>1. Continues(conv) /\ Storable(conv) /\ conv \in Conversation
    BY ConvContinues DEF Continues
  <1>2. x \in Conversation /\ x.entries = conv.entries /\ x.status = conv.status
    BY <1>1 DEF Conversation
  <1>3. Return(x) /\ UNCHANGED <<questions, ledger, world>>
    BY DEF LeaseExpires
  <1> HIDE DEF x
  <1> QED  BY <1>1, <1>2, <1>3, Returns DEF Continues, Storable, Quiet, world

\* A Conversation is born satisfying the invariant.
LEMMA InitInv ==
    ASSUME ConstantsAssumption, Init
    PROVE  Inv
  <1> USE DEF Init
  <1>1. Row("prompt") \in Entry /\ Row("prompt").kind = "prompt" /\ NoQuestion \in QuestionKey
    BY RowTypes
  <1>2. Born.entries = <<Row("prompt")>> /\ Born.status = "running"
    BY DEF Born
  <1>3. <<Row("prompt")>> \in Seq(Entry)
    BY <1>1
  <1>4. Born \in Conversation
    BY <1>1, <1>3 DEF Born, Conversation, ConstantsAssumption
  <1>5. NoTurn \in TurnType /\ NoTurn.calls = <<>>
    BY <1>1 DEF NoTurn, TurnType, ConstantsAssumption
  <1>6. TypeOK
    BY <1>4, <1>5 DEF TypeOK, TurnType
  <1>7. RowsOK(Born.entries) /\ Unresolved(Born.entries) = {}
    BY <1>1, <1>2 DEF RowsOK, RowOK, Unresolved, Positions
  <1>8. Ctl
    <2>1. Storable(conv) /\ RowsOK(mem.entries)
      BY <1>2, <1>7 DEF Storable, AtMostOne
    <2>2. CallsOK(turn.calls)
      BY <1>5 DEF CallsOK
    <2>3. Prefix(conv.entries, mem.entries)
      BY <1>2, <1>3, PrefixRefl
    <2> QED  BY <2>1, <2>2, <2>3 DEF Ctl
  <1>9. Books
    BY DEF Books, IntentIsDurable, BookingHasYes
  <1> QED  BY <1>6, <1>8, <1>9 DEF Inv

\* Every step keeps the invariant and the transcript.
LEMMA NextInv ==
    ASSUME ConstantsAssumption, Inv, [Next]_vars
    PROVE  Kept
  <1>1. CASE UNCHANGED vars
    <2>1. Inv'
      BY <1>1 DEF vars, Inv, TypeOK, Ctl, Books, InHand, Current, Authorised, AnswersTo, Spent,
                  FirstAnswer, IntentIsDurable, BookingHasYes, Storable, CallsOK
    <2>2. conv.entries \in Seq(Entry)
      BY DEF Inv, TypeOK, Conversation
    <2> QED  BY <1>1, <2>1, <2>2, PrefixRefl DEF Kept, vars
  <1> QED
    BY <1>1, ScanInv, GuardsInv, ReconcileInv, LlmInv, CallsInv, WriteBackInv, CrashInv, UserInv,
       LeaseExpiresInv DEF Next, Runtime

-----------------------------------------------------------------------------
(***************************************************************************)
(* Theorems                                                                *)
(***************************************************************************)

\* The invariant holds in every reachable state.
THEOREM Invariance == Spec => []Inv
  <1>1. Init => Inv
    BY InitInv, ConstantsAssumption
  <1>2. Inv /\ [Next]_vars => Inv'
    BY NextInv, ConstantsAssumption DEF Kept
  <1> QED  BY <1>1, <1>2, PTL DEF Spec

\* Every variable keeps the shape the code gives it.
THEOREM TypeCorrect == Spec => []TypeOK
  <1>1. Inv => TypeOK
    BY DEF Inv
  <1> QED  BY <1>1, Invariance, PTL

\* Write-ahead (advance.ts, the write of the tool intent): the stored transcript
\* names a booking before the Authority makes it.
THEOREM WriteAhead == Spec => []IntentIsDurable
  <1>1. Inv => IntentIsDurable
    BY DEF Inv, Books
  <1> QED  BY <1>1, Invariance, PTL

\* The gate (gateOnApproval, findApproval): a booking rests on an explicit yes to
\* its own arguments that was in the transcript before the call.
THEOREM ApprovedFirst == Spec => []BookingHasYes
  <1>1. Inv => BookingHasYes
    BY DEF Inv, Books
  <1> QED  BY <1>1, Invariance, PTL

\* Recovery (unresolvedIntent, reconcile): one interrupted call at most.
THEOREM OneToSettle == Spec => []AtMostOneUnresolved
  <1>1. ASSUME Inv  PROVE AtMostOneUnresolved
    <2>1. AtMostOne(Unresolved(conv.entries))
      BY <1>1 DEF Inv, Ctl, Storable
    <2>2. CASE Unresolved(conv.entries) = {}
      BY <2>2, FS_EmptySet DEF AtMostOneUnresolved
    <2>3. CASE Unresolved(conv.entries) # {}
      <3>1. PICK i : Unresolved(conv.entries) = {i}
        BY <2>1, <2>3 DEF AtMostOne
      <3> QED  BY <3>1, FS_Singleton DEF AtMostOneUnresolved
    <2> QED  BY <2>2, <2>3
  <1> QED  BY <1>1, Invariance, PTL

\* No Conversation is done with a call whose outcome nobody looked up.
THEOREM DoneIsSettled == Spec => []DoneMeansSettled
  <1>1. Inv => DoneMeansSettled
    BY DEF Inv, Ctl, Storable, DoneMeansSettled
  <1> QED  BY <1>1, Invariance, PTL

\* The transcript is a log: no write takes a row back.
THEOREM LogOnlyGrows == Spec => TranscriptOnlyGrows
  <1>1. Inv /\ [Next]_vars =>
            [ /\ Len(conv.entries) <= Len(conv'.entries)
              /\ \A i \in 1..Len(conv.entries) : conv'.entries[i] = conv.entries[i] ]_conv
    BY NextInv, ConstantsAssumption DEF Kept, Prefix
  <1> QED  BY <1>1, Invariance, PTL DEF Spec, TranscriptOnlyGrows

-----------------------------------------------------------------------------
(***************************************************************************)
(* One booking per yes                                                     *)
(***************************************************************************)

\* No answer of the Authority is lost, it can be reached while reconciling, and
\* Operations stay switched on.
NothingHidden == Faults \cap {"lost", "blind", "switch"} = {}

\* A result recorded for a booking carries the stamp that spends its approval.
Stamps(f) ==
    \A i \in 1..Len(f) : f[i].kind = "result" =>
        \A b \in ledger : b.key = f[i].key => f[i].op = "post" /\ f[i].args = b.args

Stamped ==
    /\ Stamps(mem.entries)
    /\ catalogue = Ops
    /\ pc = "reconciling" => turn.granted = Ops

\* Appending a row that is no result, or a stamped one.
LEMMA StampsAppend ==
    ASSUME NEW f \in Seq(Entry), NEW r \in Entry, Stamps(f),
           r.kind = "result" =>
              \A b \in ledger : b.key = r.key => r.op = "post" /\ r.args = b.args
    PROVE  Stamps(Append(f, r))
  <1>1. Len(Append(f, r)) = Len(f) + 1 /\ Append(f, r)[Len(f) + 1] = r
    OBVIOUS
  <1>2. \A i \in 1..Len(f) : Append(f, r)[i] = f[i]
    OBVIOUS
  <1>3. \A i \in 1..Len(Append(f, r)) : i \in 1..Len(f) \/ i = Len(f) + 1
    BY <1>1
  <1> QED  BY <1>1, <1>2, <1>3 DEF Stamps

\* A prefix of a stamped transcript is stamped.
LEMMA StampsPrefix ==
    ASSUME NEW e \in Seq(Entry), NEW f \in Seq(Entry), Prefix(e, f), Stamps(f)
    PROVE  Stamps(e)
  <1>1. \A i \in 1..Len(e) : i \in 1..Len(f) /\ f[i] = e[i]
    BY DEF Prefix
  <1> QED  BY <1>1 DEF Stamps

\* What the store holds is stamped too.
LEMMA StampsConv ==
    ASSUME Inv, Stamps(mem.entries)
    PROVE  /\ Stamps(conv.entries)
           /\ conv.entries \in Seq(Entry) /\ mem.entries \in Seq(Entry)
  <1>1. conv.entries \in Seq(Entry) /\ mem.entries \in Seq(Entry)
    BY DEF Inv, TypeOK, Conversation
  <1> QED  BY <1>1, StampsPrefix DEF Inv, Ctl

\* A row of text on a copy.
LEMMA StampsRow ==
    ASSUME NEW c \in Conversation, Stamps(c.entries), NEW k \in {"assistant", "error"}
    PROVE  /\ Stamps(appendEntry(c, Row(k)).entries)
           /\ appendEntry(c, Row(k)).entries \in Seq(Entry)
           /\ appendEntry(c, Row(k)) \in Conversation
  <1>0. c.entries \in Seq(Entry)
    BY DEF Conversation
  <1>1. Row(k) \in Entry /\ Row(k).kind # "result"
    BY RowTypes
  <1>2. appendEntry(c, Row(k)) = [c EXCEPT !.entries = Append(c.entries, Row(k))]
    BY DEF appendEntry
  <1>3. Append(c.entries, Row(k)) \in Seq(Entry) /\ Stamps(Append(c.entries, Row(k)))
    BY <1>0, <1>1, StampsAppend
  <1> DEFINE f == Append(c.entries, Row(k))
  <1> HIDE DEF f
  <1>4. [c EXCEPT !.entries = f].entries = f
    BY DEF Conversation
  <1>5. [c EXCEPT !.entries = f] \in Conversation
    BY <1>3 DEF Conversation, f
  <1> QED  BY <1>2, <1>3, <1>4, <1>5 DEF f

\* A step that books nothing and leaves a stamped copy.
LEMMA StampedStep ==
    ASSUME Stamped, ledger' = ledger, catalogue' = catalogue, Stamps(mem'.entries),
           pc' # "reconciling"
    PROVE  Stamped'
  BY DEF Stamped, Stamps

\* Writing a stamped copy back.
LEMMA StampedReturn ==
    ASSUME Inv, Stamps(mem.entries), NEW c, Stamps(c.entries), WriteAndReturn(c)
    PROVE  Stamps(mem'.entries) /\ pc' # "reconciling"
  <1>1. mem' = c \/ mem' = conv
    BY DEF WriteAndReturn, Return
  <1>2. pc' = "idle"
    BY DEF WriteAndReturn, Return
  <1> QED  BY <1>1, <1>2, StampsConv

\* Escalating with a stamped copy.
LEMMA StampedEscalate ==
    ASSUME Inv, Stamps(mem.entries), NEW c \in Conversation, Stamps(c.entries), escalateByKey(c)
    PROVE  Stamps(mem'.entries) /\ pc' # "reconciling"
  <1> DEFINE n == c.escalations + 1
             a == appendEntry(c, Row("error"))
             e == [a EXCEPT !.escalations = n]
             x == [e EXCEPT !.status = "failed", !.lease = "none", !.question = NoQuestion]
             y == suspended(e, "user", EscalationKey(n))
  <1>1. Stamps(a.entries) /\ a \in Conversation
    BY StampsRow
  <1>2. WriteAndReturn(x) \/ RaiseThenWrite(EscalationKey(n), y)
    BY DEF escalateByKey
  <1> HIDE DEF a, n
  <1>3. x.entries = a.entries /\ y.entries = a.entries
    BY <1>1 DEF suspended, Conversation
  <1> HIDE DEF x, y
  <1>4. CASE WriteAndReturn(x)
    BY <1>1, <1>3, <1>4, StampedReturn
  <1>5. CASE RaiseThenWrite(EscalationKey(n), y)
    <2>1. mem' = y /\ pc' = "writing"
      BY <1>5 DEF RaiseThenWrite
    <2> QED  BY <1>1, <1>3, <2>1
  <1> QED  BY <1>2, <1>4, <1>5

\* The scans append no result.
LEMMA ScanStamped ==
    ASSUME Inv, Stamped, Scan
    PROVE  Stamped'
  <1>1. pc' = "advance" /\ ledger' = ledger /\ catalogue' = catalogue
    BY DEF Scan, scanAnswered, scanExpiredLeases, scanRunnable, RunTurn, world
  <1>2. Stamps(conv.entries) /\ conv.entries \in Seq(Entry) /\ conv \in Conversation
    BY StampsConv DEF Stamped, Inv, TypeOK
  <1>3. Stamps(mem'.entries)
    <2>1. CASE scanAnswered
      <3> DEFINE q == conv.question
                 row == IF q \in DOMAIN questions THEN AnswerRow(q) ELSE Row("error")
                 r == [appendEntry(conv, row) EXCEPT !.status = "running", !.waitingFor = "",
                                                     !.question = NoQuestion]
      <3>1. mem' = r
        BY <2>1 DEF scanAnswered, RunTurn
      <3>2. q \in QuestionKey
        BY <1>2 DEF Conversation
      <3>3. AnswerRow(q) \in Entry /\ AnswerRow(q).kind # "result"
        BY <3>2, RowTypes
      <3>4. Row("error") \in Entry /\ Row("error").kind # "result"
        BY RowTypes
      <3>5. row \in Entry /\ row.kind # "result"
        BY <3>3, <3>4
      <3> HIDE DEF row
      <3>6. r.entries = Append(conv.entries, row)
        BY <1>2 DEF appendEntry, Conversation
      <3> HIDE DEF r
      <3> QED  BY <1>2, <3>1, <3>5, <3>6, StampsAppend
    <2>2. CASE scanExpiredLeases \/ scanRunnable
      <3>1. mem'.entries = conv.entries
        BY <1>2, <2>2 DEF scanExpiredLeases, scanRunnable, RunTurn, Conversation
      <3> QED  BY <1>2, <3>1
    <2> QED  BY <2>1, <2>2 DEF Scan
  <1> QED  BY <1>1, <1>3, StampedStep

\* The guards append no result.
LEMMA GuardsStamped ==
    ASSUME Inv, Stamped, Guards
    PROVE  Stamped'
  <1>1. ledger' = ledger /\ catalogue' = catalogue
    BY DEF Guards, endBecauseFull, UnknownAssistant, DisabledAssistant, TurnsExhausted, BeginTurn,
           world
  <1>2. Stamps(mem.entries) /\ mem.entries \in Seq(Entry) /\ mem \in Conversation
    BY StampsConv DEF Stamped, Inv, TypeOK
  <1>3. CASE endBecauseFull
    <2> DEFINE m == IF Len(mem.entries) < MaxEntries THEN appendEntry(mem, Row("error")) ELSE mem
               x == [m EXCEPT !.status = "failed", !.waitingFor = "",
                              !.lease = "none", !.question = NoQuestion]
    <2>1. Stamps(m.entries) /\ m \in Conversation
      BY <1>2, StampsRow
    <2>2. WriteAndReturn(x)
      BY <1>3 DEF endBecauseFull
    <2> HIDE DEF m
    <2>3. x.entries = m.entries
      BY <2>1 DEF Conversation
    <2> HIDE DEF x
    <2> QED  BY <1>1, <1>2, <2>1, <2>2, <2>3, StampedReturn, StampedStep
  <1>4. CASE UnknownAssistant \/ TurnsExhausted
    <2> DEFINE x == [Claimed EXCEPT !.maxTurns = @ + TurnGrant]
    <2>1. Claimed \in Conversation /\ Claimed.entries = mem.entries
      BY <1>2 DEF Claimed, Conversation
    <2>2. x \in Conversation /\ x.entries = mem.entries
      <3>1. TurnGrant \in Nat
        BY ConstantsAssumption
      <3>2. Claimed.maxTurns \in Nat
        BY <2>1 DEF Conversation
      <3>3. Claimed.maxTurns + TurnGrant \in Nat
        BY <3>1, <3>2
      <3> QED  BY <2>1, <3>3 DEF Conversation
    <2>3. escalateByKey(Claimed) \/ escalateByKey(x)
      BY <1>4 DEF UnknownAssistant, TurnsExhausted
    <2> HIDE DEF x
    <2>4. Stamps(mem'.entries) /\ pc' # "reconciling"
      BY <1>2, <2>1, <2>2, <2>3, StampedEscalate
    <2> QED  BY <1>1, <2>4, StampedStep
  <1>5. CASE DisabledAssistant
    <2> DEFINE x == [mem EXCEPT !.lease = "none"]
    <2>1. WriteAndReturn(x)
      BY <1>5 DEF DisabledAssistant
    <2>2. x.entries = mem.entries
      BY <1>2 DEF Conversation
    <2> HIDE DEF x
    <2> QED  BY <1>1, <1>2, <2>1, <2>2, StampedReturn, StampedStep
  <1>6. CASE BeginTurn
    <2>1. mem'.entries = mem.entries
      BY <1>2, <1>6 DEF BeginTurn, Claimed, Conversation
    <2>2. turn'.granted = catalogue
      BY <1>6 DEF BeginTurn, NoTurn
    <2> QED  BY <1>1, <1>2, <2>1, <2>2 DEF Stamped, Stamps
  <1> QED  BY <1>3, <1>4, <1>5, <1>6 DEF Guards

\* Recovery stamps the result of a posting that landed.
LEMMA ReconcileStamped ==
    ASSUME NothingHidden, Inv, Stamped, reconcile
    PROVE  Stamped'
  <1> DEFINE u == unresolvedIntent(mem.entries)
             e == mem.entries
  <1>0. pc = "reconciling" /\ ledger' = ledger /\ catalogue' = catalogue
    BY DEF reconcile, ReconcileUnavailable, ReconcileRead, ReconcilePost, ReconcileQuestion, settle,
           world
  <1>1. Unresolved(e) # {} /\ e \in Seq(Entry) /\ mem \in Conversation /\ Stamps(e)
        /\ RowsOK(e) /\ turn.granted = Ops
    BY <1>0 DEF Inv, TypeOK, Ctl, Conversation, Stamped
  <1>2. u \in 1..Len(e) /\ e[u].key = u
    BY <1>1, FirstUnresolved
  <1>3. Interrupted = e[u] /\ Interrupted \in Entry /\ Interrupted.key = u
    BY <1>1, <1>2 DEF Interrupted
  <1>4. Interrupted.op \in Ops \cup {"none"} /\ Interrupted.args \in Args \cup {NoArgs}
        /\ Interrupted.key \in Nat
    BY <1>3 DEF Entry
  <1>5. ASSUME NEW b \in ledger, b.key = Interrupted.key
        PROVE  Interrupted.op = "post" /\ Interrupted.args = b.args
    <2>1. b.key \in 1..Len(conv.entries)
          /\ conv.entries[b.key] = IntentRow([op |-> "post", args |-> b.args], b.key)
      BY Zenon DEF Inv, Books, IntentIsDurable
    <2>2. e[b.key] = conv.entries[b.key]
      BY <2>1 DEF Inv, Ctl, Prefix
    <2>3. Interrupted = IntentRow([op |-> "post", args |-> b.args], b.key)
      BY <1>3, <1>5, <2>1, <2>2
    <2>4. IntentRow([op |-> "post", args |-> b.args], b.key).op = "post"
          /\ IntentRow([op |-> "post", args |-> b.args], b.key).args = b.args
      BY DEF IntentRow, Row
    <2> QED  BY <2>3, <2>4
  <1>6. ASSUME NEW a \in Args \cup {NoArgs},
               (\E b \in ledger : b.key = Interrupted.key) => a = Interrupted.args
        PROVE  LET m == appendEntry(mem, ResultRow(Interrupted.op, Interrupted.key, a))
               IN  Stamps(m.entries) /\ m \in Conversation
    <2> DEFINE r == ResultRow(Interrupted.op, Interrupted.key, a)
               f == Append(e, r)
    <2>1. r \in Entry /\ r.kind = "result" /\ r.key = Interrupted.key /\ r.op = Interrupted.op
          /\ r.args = a
      BY <1>4, ResultRowType
    <2> HIDE DEF r
    <2>2. Stamps(f) /\ f \in Seq(Entry)
      BY <1>1, <1>5, <1>6, <2>1, StampsAppend
    <2>3. appendEntry(mem, r) = [mem EXCEPT !.entries = f]
      BY DEF appendEntry
    <2> HIDE DEF f
    <2>4. [mem EXCEPT !.entries = f].entries = f /\ [mem EXCEPT !.entries = f] \in Conversation
      BY <1>1, <2>2 DEF Conversation
    <2> QED  BY <2>2, <2>3, <2>4 DEF r
  <1>7. ASSUME NEW m, Stamps(m.entries), Write(m, "thinking", turn)
        PROVE  Stamps(mem'.entries) /\ pc' # "reconciling"
    <2>1. (mem' = m \/ mem' = conv) /\ pc' \in {"thinking", "idle"}
      BY <1>7 DEF Write, Return
    <2> QED  BY <1>1, <1>7, <2>1, StampsConv
  <1>8. ASSUME NEW a \in Args \cup {NoArgs}, settle(a),
               (\E b \in ledger : b.key = Interrupted.key) => a = Interrupted.args
        PROVE  Stamped'
    <2>1. Stamps(mem'.entries) /\ pc' # "reconciling"
      BY <1>6, <1>7, <1>8 DEF settle
    <2> QED  BY <1>0, <2>1, StampedStep
  <1>9. CASE ReconcileUnavailable \/ ReconcileRead
    <2>1. ~\E b \in ledger : b.key = Interrupted.key
      BY <1>1, <1>5, <1>9 DEF ReconcileUnavailable, ReconcileRead, Ops
    <2>2. settle(NoArgs)
      BY <1>9 DEF ReconcileUnavailable, ReconcileRead
    <2> QED  BY <1>8, <2>1, <2>2
  <1>10. CASE ReconcilePost
    <2> DEFINE a == IF \E b \in ledger : b.key = Interrupted.key THEN Interrupted.args ELSE NoArgs
    <2>1. settle(a)
      BY <1>10 DEF ReconcilePost, NothingHidden
    <2>2. a \in Args \cup {NoArgs}
      BY <1>4
    <2> QED  BY <1>8, <2>1, <2>2
  <1>11. CASE ReconcileQuestion
    <2> DEFINE m == appendEntry(mem, ResultRow(Interrupted.op, Interrupted.key, NoArgs))
               w == IF Interrupted.op = "ask" THEN "user" ELSE "tool"
               x == suspended(m, w, CallKey(Interrupted.key))
    <2>1. ~\E b \in ledger : b.key = Interrupted.key
      BY <1>5, <1>11 DEF ReconcileQuestion
    <2>2. Stamps(m.entries) /\ m \in Conversation
      BY <1>6, <2>1
    <2>3. escalateByKey(m) \/ Write(m, "thinking", turn) \/ WriteAndReturn(x)
      BY <1>11 DEF ReconcileQuestion
    <2> HIDE DEF m
    <2>4. x.entries = m.entries
      BY <2>2 DEF suspended, Conversation
    <2> HIDE DEF x
    <2>5. Stamps(mem'.entries) /\ pc' # "reconciling"
      BY <1>1, <1>7, <2>2, <2>3, <2>4, StampedEscalate, StampedReturn
    <2> QED  BY <1>0, <2>5, StampedStep
  <1> QED  BY <1>9, <1>10, <1>11 DEF reconcile

\* The model's steps append no result.
LEMMA LlmStamped ==
    ASSUME Inv, Stamped, Llm
    PROVE  Stamped'
  <1>0. pc = "thinking" /\ ledger' = ledger /\ catalogue' = catalogue
    BY DEF Llm, LlmTransientError, LlmError, LlmFinishes, LlmWantsTools, world
  <1>1. mem \in Conversation /\ Stamps(mem.entries)
    BY DEF Inv, TypeOK, Stamped
  <1> DEFINE counted == [mem EXCEPT !.turns = @ + 1]
             a == appendEntry(mem, Row("assistant"))
             m == appendEntry(mem, Row("error"))
             x == [a EXCEPT !.turns = @ + 1, !.status = "done", !.lease = "none"]
  <1>2. counted \in Conversation /\ counted.entries = mem.entries
    <2>1. mem.turns \in Nat
      BY <1>1 DEF Conversation
    <2>2. mem.turns + 1 \in Nat
      BY <2>1
    <2> QED  BY <1>1, <2>2 DEF Conversation
  <1>3. Stamps(m.entries) /\ m \in Conversation /\ Stamps(a.entries) /\ a \in Conversation
    BY <1>1, StampsRow
  <1>4. x.entries = a.entries
    <2> HIDE DEF a
    <2> QED  BY <1>3 DEF Conversation
  <1>5. \/ mem' = m /\ pc' = pc
        \/ mem' = counted /\ pc' = "calling"
        \/ escalateByKey(m) \/ escalateByKey(mem) \/ escalateByKey(counted)
        \/ WriteAndReturn(x)
    BY DEF Llm, LlmTransientError, LlmError, LlmFinishes, LlmWantsTools
  <1> HIDE DEF counted, a, m, x
  <1>6. Stamps(mem'.entries) /\ pc' # "reconciling"
    BY <1>0, <1>1, <1>2, <1>3, <1>4, <1>5, StampedEscalate, StampedReturn
  <1> QED  BY <1>0, <1>6, StampedStep

\* The call in hand has not been booked, so its result may say anything.
LEMMA StampsRecorded ==
    ASSUME Inv, Stamps(mem.entries), pc \in {"refusing", "gating", "executing"},
           NEW a \in Args \cup {NoArgs}
    PROVE  Stamps(Recorded(a).entries)
  <1> DEFINE r == ResultRow(Current.op, CurrentKey, a)
  <1>1. Current \in Call /\ CurrentKey \in Nat /\ CurrentKey = Len(mem.entries)
        /\ mem.entries \in Seq(Entry)
    BY InHandFacts
  <1>2. Current.op \in Ops \cup {"none"}
    BY <1>1 DEF Call
  <1>3. r \in Entry /\ r.kind = "result" /\ r.key = CurrentKey
    BY <1>1, <1>2, ResultRowType
  <1>4. \A b \in ledger : b.key # CurrentKey
    <2>1. \A b \in ledger : b.key < Len(mem.entries) /\ b.key \in Nat
      BY DEF Inv, TypeOK, Books, Booking
    <2> QED  BY <1>1, <2>1
  <1> HIDE DEF r
  <1>5. Stamps(Append(mem.entries, r))
    BY <1>1, <1>3, <1>4, StampsAppend
  <1> QED  BY <1>5, RecordedOK DEF r

\* A booking and its stamped result are one step.
LEMMA BookStamped ==
    ASSUME Inv, Stamped, pc = "executing", Current.op = "post",
           ledger' = ledger \cup {[key |-> CurrentKey, args |-> Current.args, auth |-> turn.auth]},
           catalogue' = catalogue, Record(Current.args)
    PROVE  Stamped'
  <1> DEFINE r == ResultRow(Current.op, CurrentKey, Current.args)
             b == [key |-> CurrentKey, args |-> Current.args, auth |-> turn.auth]
             n == Len(mem.entries)
             f == Append(mem.entries, r)
  <1>1. CurrentKey \in Nat /\ CurrentKey = n /\ mem.entries \in Seq(Entry) /\ Current.args \in Args
    BY InHandFacts
  <1>2. r \in Entry /\ r.kind = "result" /\ r.key = n /\ r.op = "post" /\ r.args = Current.args
    <2>1. Current.op \in Ops \cup {"none"}
      BY DEF Ops
    <2> QED  BY <1>1, <2>1, ResultRowType
  <1>3. mem'.entries = f /\ pc' = "calling"
    <2>1. mem' = Recorded(Current.args) /\ pc' = "calling"
      BY DEF Record, Recorded
    <2> QED  BY <1>1, <2>1, RecordedOK
  <1>4. \A c \in ledger : c.key \in Nat /\ c.key < n
    BY DEF Inv, TypeOK, Books, Booking
  <1>5. \A i \in 1..n : mem.entries[i].kind = "result" => mem.entries[i].key < n
    <2>1. \A i \in 1..n : mem.entries[i].kind = "result" => mem.entries[i].key < i
      BY DEF Inv, Ctl, RowsOK, RowOK
    <2>2. \A i \in 1..n : mem.entries[i].key \in Nat
      <3>1. \A i \in 1..n : mem.entries[i] \in Entry
        BY <1>1
      <3> QED  BY <3>1 DEF Entry
    <2> QED  BY <1>1, <2>1, <2>2
  <1>6. Len(f) = n + 1 /\ f[n + 1] = r /\ \A i \in 1..n : f[i] = mem.entries[i]
    BY <1>1, <1>2
  <1> HIDE DEF r, f
  <1>7. ASSUME NEW i \in 1..Len(f), f[i].kind = "result", NEW c \in ledger \cup {b},
               c.key = f[i].key
        PROVE  f[i].op = "post" /\ f[i].args = c.args
    <2>1. CASE i = n + 1
      <3>1. c = b
        BY <1>2, <1>4, <1>6, <1>7, <2>1, <1>1
      <3> QED  BY <1>2, <1>6, <2>1, <3>1
    <2>2. CASE i \in 1..n
      <3>1. c \in ledger
        BY <1>1, <1>5, <1>6, <1>7, <2>2
      <3> QED  BY <1>6, <1>7, <2>2, <3>1 DEF Stamped, Stamps
    <2> QED  BY <1>1, <1>6, <2>1, <2>2
  <1>8. Stamps(mem.entries)'
    BY <1>3, <1>7 DEF Stamps
  <1> QED  BY <1>3, <1>8 DEF Stamped

\* Every step of a tool call keeps results stamped.
LEMMA CallsStamped ==
    ASSUME NothingHidden, Inv, Stamped, Calls
    PROVE  Stamped'
  <1>0. catalogue' = catalogue
    BY DEF Calls, WriteIntent, RefuseUnresolved, gateOnApproval, raiseApproval, ExecutePost,
           ExecuteQuestion, ExecuteRead, EndTurn, world
  <1>1. Stamps(mem.entries) /\ mem \in Conversation /\ mem.entries \in Seq(Entry)
        /\ conv.entries \in Seq(Entry)
    BY DEF Stamped, Inv, TypeOK, Conversation
  <1>2. ASSUME pc \in {"refusing", "gating", "executing"}, NEW a \in Args \cup {NoArgs}, Record(a)
        PROVE  Stamps(mem'.entries) /\ pc' # "reconciling"
    <2>1. mem' = Recorded(a) /\ pc' = "calling"
      BY <1>2 DEF Record, Recorded
    <2> QED  BY <1>1, <1>2, <2>1, StampsRecorded
  <1>3. ASSUME pc \in {"refusing", "gating", "executing"}, NEW w \in {"user", "tool"}, NEW q
        PROVE  Stamps(Pending(mem, w, q).entries)
    <2>1. Pending(mem, w, q) = suspended(Recorded(NoArgs), w, q)
      BY DEF Pending, Recorded
    <2>2. Recorded(NoArgs) \in Conversation /\ Stamps(Recorded(NoArgs).entries)
      BY <1>1, <1>3, RecordedOK, StampsRecorded DEF Continues
    <2>3. suspended(Recorded(NoArgs), w, q).entries = Recorded(NoArgs).entries
      BY <2>2 DEF suspended, Conversation
    <2> QED  BY <2>1, <2>2, <2>3
  <1>4. CASE WriteIntent
    <2> DEFINE r == IntentRow(Head(turn.calls), Len(mem.entries) + 1)
               m == appendEntry(mem, r)
    <2>1. (mem' = m \/ mem' = conv) /\ pc' # "reconciling" /\ ledger' = ledger
      BY <1>4 DEF WriteIntent, Write, Return
    <2>2. turn.calls \in Seq(Call) /\ turn.calls # <<>>
      BY <1>4 DEF WriteIntent, Inv, TypeOK
    <2>3. Head(turn.calls) \in Call
      BY <2>2
    <2>4. r \in Entry /\ r.kind = "intent"
      BY <1>1, <2>3, RowTypes
    <2> HIDE DEF r
    <2>5. m.entries = Append(mem.entries, r)
      BY <1>1 DEF appendEntry, Conversation
    <2>6. Stamps(m.entries)
      BY <1>1, <2>4, <2>5, StampsAppend
    <2>7. Stamps(conv.entries)
      BY <1>1, StampsConv
    <2> HIDE DEF m
    <2> QED  BY <1>0, <2>1, <2>6, <2>7, StampedStep
  <1>5. CASE RefuseUnresolved \/ ExecuteRead
    <2>1. Stamps(mem'.entries) /\ pc' # "reconciling" /\ ledger' = ledger
      BY <1>2, <1>5 DEF RefuseUnresolved, ExecuteRead
    <2> QED  BY <1>0, <2>1, StampedStep
  <1>6. CASE gateOnApproval
    <2> DEFINE q == mem.entries[LastRequest(mem.entries, Current.args)].q
    <2>1. pc = "gating" /\ ledger' = ledger
      BY <1>6 DEF gateOnApproval
    <2>2. \/ mem' = mem /\ pc' = "executing"
          \/ Record(NoArgs)
          \/ WriteAndReturn(Pending(mem, "user", q))
      BY <1>6 DEF gateOnApproval
    <2> HIDE DEF q
    <2>3. Stamps(Pending(mem, "user", q).entries)
      BY <1>3, <2>1
    <2>4. Stamps(mem'.entries) /\ pc' # "reconciling"
      BY <1>1, <1>2, <2>1, <2>2, <2>3, StampedReturn
    <2> QED  BY <1>0, <2>1, <2>4, StampedStep
  <1>7. CASE raiseApproval
    <2> DEFINE a == Current.args
               q == ApprovalKey(mem.entries, a)
               r == RequestRow(a, q)
               t == ResultRow("post", CurrentKey, NoArgs)
               p == Pending(mem, "user", q)
    <2>1. pc = "gating" /\ Current.op = "post" /\ ledger' = ledger /\ pc' = "writing"
          /\ mem' = [p EXCEPT !.entries = mem.entries \o <<r, t>>]
      BY <1>7 DEF raiseApproval, Inv, Ctl
    <2>2. a \in Args /\ CurrentKey \in Nat /\ CurrentKey = Len(mem.entries)
      BY <2>1, InHandFacts
    <2>3. q \in QuestionKey
      BY <1>1, <2>2, ApprovalKeyType
    <2>4. r \in Entry /\ r.kind = "request"
      BY <2>2, <2>3, RowTypes
    <2>5. t \in Entry /\ t.key = CurrentKey
      <3>1. "post" \in Ops \cup {"none"}
        BY DEF Ops
      <3> QED  BY <2>2, <3>1, ResultRowType
    <2>6. \A b \in ledger : b.key # CurrentKey
      <3>1. \A b \in ledger : b.key < Len(mem.entries) /\ b.key \in Nat
        BY <2>1 DEF Inv, TypeOK, Books, Booking
      <3> QED  BY <2>2, <3>1
    <2>7. p \in Conversation
      BY <2>1, <2>3, PendingOK DEF Continues
    <2> HIDE DEF r, t, p
    <2>8. mem.entries \o <<r, t>> = Append(Append(mem.entries, r), t)
      BY <1>1, <2>4, <2>5
    <2>9. mem'.entries = Append(Append(mem.entries, r), t)
      BY <2>1, <2>7, <2>8 DEF Conversation
    <2>10. Append(mem.entries, r) \in Seq(Entry) /\ Stamps(Append(mem.entries, r))
      BY <1>1, <2>4, StampsAppend
    <2>11. Stamps(mem'.entries)
      BY <2>5, <2>6, <2>9, <2>10, StampsAppend
    <2> QED  BY <1>0, <2>1, <2>11, StampedStep
  <1>8. CASE ExecutePost
    <2>1. pc = "executing" /\ Current.op = "post"
      BY <1>8 DEF ExecutePost
    <2>2. Current.args \in Args
      BY <2>1, InHandFacts
    <2>3. CASE ledger' = ledger
      <3>1. Record(Current.args) \/ Record(NoArgs)
        BY <1>8 DEF ExecutePost
      <3>2. Stamps(mem'.entries) /\ pc' # "reconciling"
        BY <1>2, <2>1, <2>2, <3>1
      <3> QED  BY <1>0, <2>3, <3>2, StampedStep
    <2>4. CASE /\ ledger' = ledger \cup {[key |-> CurrentKey, args |-> Current.args,
                                          auth |-> turn.auth]}
               /\ Record(Current.args)
      BY <1>0, <2>1, <2>4, BookStamped
    <2> QED  BY <1>8, <2>3, <2>4 DEF ExecutePost, NothingHidden
  <1>9. CASE ExecuteQuestion
    <2> DEFINE q == CallKey(CurrentKey)
               w == IF Current.op = "ask" THEN "user" ELSE "tool"
    <2>1. pc = "executing" /\ ledger' = ledger
      BY <1>9 DEF ExecuteQuestion
    <2>2. (mem' = Pending(mem, w, q) /\ pc' = "writing") \/ Record(NoArgs)
      BY <1>9 DEF ExecuteQuestion, RaiseThenWrite
    <2>3. w \in {"user", "tool"}
      OBVIOUS
    <2> HIDE DEF q, w
    <2>4. Stamps(Pending(mem, w, q).entries)
      BY <1>3, <2>1, <2>3
    <2>5. Stamps(mem'.entries) /\ pc' # "reconciling"
      BY <1>2, <2>1, <2>2, <2>4
    <2> QED  BY <1>0, <2>1, <2>5, StampedStep
  <1>10. CASE EndTurn
    <2> DEFINE x == [mem EXCEPT !.lease = "none", !.status = "running"]
    <2>1. WriteAndReturn(x) /\ ledger' = ledger
      BY <1>10 DEF EndTurn
    <2>2. x.entries = mem.entries
      BY <1>1 DEF Conversation
    <2> HIDE DEF x
    <2> QED  BY <1>0, <1>1, <2>1, <2>2, StampedReturn, StampedStep
  <1> QED  BY <1>4, <1>5, <1>6, <1>7, <1>8, <1>9, <1>10 DEF Calls

\* Every step keeps results stamped, as long as nothing is hidden.
LEMMA NextStamped ==
    ASSUME NothingHidden, Inv, Stamped, [Next]_vars
    PROVE  Stamped'
  <1>1. CASE UNCHANGED vars
    BY <1>1 DEF vars, Stamped, Stamps
  <1>2. CASE WriteBack
    <2>1. WriteAndReturn(mem) /\ ledger' = ledger /\ catalogue' = catalogue
      BY <1>2 DEF WriteBack, world
    <2> QED  BY <2>1, StampedReturn, StampedStep DEF Stamped
  <1>3. CASE LeaseExpires \/ Crash
    <2>1. conv \in Conversation
      BY DEF Inv, TypeOK
    <2>2. mem'.entries = conv.entries /\ pc' = "idle" /\ ledger' = ledger /\ catalogue' = catalogue
      BY <1>3, <2>1 DEF LeaseExpires, Crash, Return, Conversation, world
    <2> QED  BY <2>2, StampsConv, StampedStep DEF Stamped
  <1>4. CASE User
    <2>1. UNCHANGED <<mem, pc, turn, ledger, catalogue>>
      BY <1>4 DEF User, UserAnswers, UserDeletes, UserSwitches, UserSetsAssistant, NothingHidden
    <2> QED  BY <2>1 DEF Stamped, Stamps
  <1> QED
    BY <1>1, <1>2, <1>3, <1>4, ScanStamped, GuardsStamped, ReconcileStamped, LlmStamped,
       CallsStamped DEF Next, Runtime

\* The yes a call is executed on has not been used: an earlier booking on it was
\* settled by a stamped result after its answer, and findApproval calls that spent.
LEMMA FreshYes ==
    ASSUME Inv, Stamped, pc = "executing", Current.op = "post", NEW b \in ledger
    PROVE  b.auth # turn.auth /\ b.key # CurrentKey
  <1> DEFINE e == mem.entries
  <1>1. e \in Seq(Entry) /\ CurrentKey = Len(e) /\ CurrentKey \in Nat /\ conv = mem
        /\ Unresolved(e) = {CurrentKey}
    BY InHandFacts
  <1>2. b.key \in Nat /\ b.key < Len(e)
    BY DEF Inv, TypeOK, Books, Booking
  <1>3. SUFFICES ASSUME b.auth = turn.auth  PROVE FALSE
    BY <1>1, <1>2
  <1>4. Authorised
    BY DEF Inv, Books
  <1>5. b.key \in 1..Len(e) /\ e[b.key] = IntentRow([op |-> "post", args |-> b.args], b.key)
    BY <1>1, Zenon DEF Inv, Books, IntentIsDurable
  <1>6. e[b.key].kind = "intent" /\ e[b.key].key = b.key
    BY <1>5 DEF IntentRow, Row
  <1>7. PICK r \in Positions(e, "result") : e[r].key = b.key
    <2>1. b.key \notin Unresolved(e)
      BY <1>1, <1>2
    <2> QED  BY <1>5, <1>6, <2>1 DEF Unresolved, Resolved, Positions
  <1>8. r \in 1..Len(e) /\ e[r].kind = "result"
    BY <1>7 DEF Positions
  <1>9. e[r].op = "post" /\ e[r].args = b.args
    BY <1>7, <1>8 DEF Stamped, Stamps
  <1>10. b.key < r
    BY <1>7, <1>8 DEF Inv, Ctl, RowsOK, RowOK
  <1>11. PICK i \in 1..(b.key - 1) : e[i] = AnswerRow(b.auth)
    BY <1>1 DEF Inv, Books, BookingHasYes
  <1>12. i \in AnswersTo(e, turn.auth)
    <2>1. AnswerRow(b.auth).kind = "answer" /\ AnswerRow(b.auth).q = b.auth
      BY DEF AnswerRow, Row
    <2>2. i \in 1..Len(e)
      BY <1>1, <1>2
    <2> QED  BY <1>3, <1>11, <2>1, <2>2 DEF AnswersTo, Positions
  <1>13. FirstAnswer(e, turn.auth) <= i /\ FirstAnswer(e, turn.auth) \in Nat
    <2>1. AnswersTo(e, turn.auth) \subseteq Nat
      BY DEF AnswersTo, Positions
    <2> QED  BY <1>1, <1>12, <2>1, FirstAnswerExists
  <1>14. r > FirstAnswer(e, turn.auth)
    <2>1. i \in Nat /\ i < b.key /\ r \in Nat
      BY <1>2, <1>8
    <2> QED  BY <1>2, <1>10, <1>13, <2>1
  <1>15. b.args = Current.args
    BY <1>3, <1>4 DEF Authorised, Inv, Books, BookingHasYes
  <1>16. Spent(e, Current.args, turn.auth)
    BY <1>7, <1>9, <1>14, <1>15 DEF Spent
  <1> QED  BY <1>4, <1>16 DEF Authorised

\* A step that books makes one booking, on the yes the call was authorised by.
LEMMA LedgerStep ==
    ASSUME Inv, [Next]_vars, ledger' # ledger
    PROVE  /\ pc = "executing" /\ Current.op = "post"
           /\ ledger' = ledger \cup {[key |-> CurrentKey, args |-> Current.args, auth |-> turn.auth]}
           /\ ~AlreadyBooked(CurrentKey, Current.args)
           /\ yeses' = yeses
  <1>1. ExecutePost
    BY DEF Next, vars, Runtime, Scan, scanAnswered, scanExpiredLeases, scanRunnable,
       Guards, endBecauseFull, UnknownAssistant, DisabledAssistant, TurnsExhausted, BeginTurn,
       reconcile, ReconcileUnavailable, ReconcileRead, ReconcilePost, ReconcileQuestion, settle,
       Llm, LlmTransientError, LlmError, LlmFinishes, LlmWantsTools,
       Calls, WriteIntent, RefuseUnresolved, gateOnApproval, raiseApproval, ExecuteQuestion,
       ExecuteRead, EndTurn, WriteBack, LeaseExpires, Crash,
       User, UserAnswers, UserDeletes, UserSwitches, UserSetsAssistant
  <1> QED  BY <1>1 DEF ExecutePost, world

\* postTransaction.ts, "Safe to retry, three ways": a posting that names its Thing is booked
\* once, whatever is lost, blind, switched off, re-answered or approved twice.
THEOREM OnePostingOneBooking == Spec => []OneBookingPerPosting
  <1> DEFINE J == Inv /\ OneBookingPerPosting
  <1>1. Init => J
    BY InitInv, ConstantsAssumption DEF Init, OneBookingPerPosting
  <1>2. J /\ [Next]_vars => J'
    <2> SUFFICES ASSUME J, [Next]_vars  PROVE J'
      OBVIOUS
    <2>1. Inv'
      BY NextInv, ConstantsAssumption DEF Kept
    <2>2. CASE ledger' = ledger
      BY <2>1, <2>2 DEF OneBookingPerPosting
    <2>3. CASE ledger' # ledger
      <3> DEFINE b == [key |-> CurrentKey, args |-> Current.args, auth |-> turn.auth]
      <3>1. ledger' = ledger \cup {b} /\ (Tagged => \A c \in ledger : c.args # b.args)
        BY <2>3, LedgerStep DEF AlreadyBooked
      <3> HIDE DEF b
      <3> QED  BY <2>1, <3>1 DEF OneBookingPerPosting
    <2> QED  BY <2>2, <2>3
  <1>3. J => OneBookingPerPosting
    OBVIOUS
  <1> HIDE DEF J
  <1> QED  BY <1>1, <1>2, <1>3, PTL DEF Spec

\* Initially nothing is booked.
LEMMA StampedInit ==
    ASSUME Init  PROVE Stamped
  BY DEF Init, Stamped, Stamps, Ops

\* ADR-0018 (findApproval, stampSpentApproval): one yes, one booking, whatever is
\* interrupted, refused, retried, re-answered or deleted - as long as nothing hides
\* what the Authority did.
THEOREM OneYesOneBooking ==
    ASSUME NothingHidden
    PROVE  Spec => []OneBookingPerYes
  <1> DEFINE J == Inv /\ Stamped /\ OneBookingPerYes
  <1>1. Init => J
    BY InitInv, StampedInit, ConstantsAssumption DEF Init, OneBookingPerYes
  <1>2. J /\ [Next]_vars => J'
    <2> SUFFICES ASSUME J, [Next]_vars  PROVE J'
      OBVIOUS
    <2>1. Inv' /\ Stamped'
      BY NextInv, NextStamped, ConstantsAssumption DEF Kept
    <2>2. OneBookingPerYes'
      <3>1. CASE ledger' = ledger
        BY <3>1 DEF OneBookingPerYes
      <3>2. CASE ledger' # ledger
        <4> DEFINE b == [key |-> CurrentKey, args |-> Current.args, auth |-> turn.auth]
        <4>1. ledger' = ledger \cup {b} /\ \A c \in ledger : c.auth # b.auth
          BY <3>2, LedgerStep, FreshYes
        <4> HIDE DEF b
        <4> QED  BY <4>1 DEF OneBookingPerYes
      <3> QED  BY <3>1, <3>2
    <2> QED  BY <2>1, <2>2
  <1>3. J => OneBookingPerYes
    OBVIOUS
  <1> HIDE DEF J
  <1> QED  BY <1>1, <1>2, <1>3, PTL DEF Spec

\* The Turn loop implements ApprovedLedger: the books change by one booking at a
\* time, under a key never used before, on a yes to its arguments no other used.
THEOREM Refinement ==
    ASSUME NothingHidden
    PROVE  Spec => ImplementsApprovedLedger
  <1> DEFINE J == Inv /\ Stamped
  <1>1. Init => J
    BY InitInv, StampedInit, ConstantsAssumption
  <1>2. J /\ [Next]_vars => J'
    BY NextInv, NextStamped, ConstantsAssumption DEF Kept
  <1>3. Init => Approved!Init
    BY DEF Init, Approved!Init
  <1>4. J /\ [Next]_vars => [Approved!Next]_<<yeses, ledger>>
    <2> SUFFICES ASSUME J, [Next]_vars, ~UNCHANGED <<yeses, ledger>>
                 PROVE  Approved!Next
      OBVIOUS
    <2>1. CASE ledger' # ledger
      <3> DEFINE b == [key |-> CurrentKey, args |-> Current.args, auth |-> turn.auth]
      <3>1. ledger' = ledger \cup {b} /\ yeses' = yeses /\ pc = "executing" /\ Current.op = "post"
        BY <2>1, LedgerStep
      <3>2. \A c \in ledger : c.auth # b.auth /\ c.key # b.key
        BY <3>1, FreshYes
      <3>3. b.auth \in yeses /\ b.auth.args = b.args
        BY <3>1 DEF Inv, Books, Authorised
      <3> HIDE DEF b
      <3>4. b \in ledger'
        BY <3>1
      <3> QED  BY <3>1, <3>2, <3>3, <3>4 DEF Approved!Next, Approved!Book
    <2>2. CASE ledger' = ledger
      <3>1. yeses' # yeses
        BY <2>2
      <3>2. \E q \in yeses' : yeses' = yeses \cup {q}
        <4>1. User
          BY <3>1 DEF Next, vars, Runtime, Scan, scanAnswered, scanExpiredLeases, scanRunnable,
             Guards, endBecauseFull, UnknownAssistant, DisabledAssistant, TurnsExhausted, BeginTurn,
             reconcile, ReconcileUnavailable, ReconcileRead, ReconcilePost, ReconcileQuestion,
             settle, Llm, LlmTransientError, LlmError, LlmFinishes, LlmWantsTools,
             Calls, WriteIntent, RefuseUnresolved, gateOnApproval, raiseApproval, ExecutePost,
             ExecuteQuestion, ExecuteRead, EndTurn, WriteBack, LeaseExpires, Crash, world
        <4> QED  BY <3>1, <4>1 DEF User, UserAnswers, UserDeletes, UserSwitches, UserSetsAssistant
      <3> QED  BY <2>2, <3>2 DEF Approved!Next, Approved!Approve
    <2> QED  BY <2>1, <2>2
  <1> HIDE DEF J
  <1> QED  BY <1>1, <1>2, <1>3, <1>4, PTL DEF Spec, ImplementsApprovedLedger, Approved!Spec

-----------------------------------------------------------------------------
(***************************************************************************)
(* One open question per booking                                           *)
(***************************************************************************)

\* Every approval request of f is stored.
Logged(f) == \A i \in 1..Len(f) : f[i].kind = "request" => i <= Len(conv.entries)

\* A row that is no request.
LEMMA LoggedAppend ==
    ASSUME NEW f \in Seq(Entry), NEW r \in Entry, Logged(f), r.kind # "request"
    PROVE  Logged(Append(f, r))
  <1>1. Len(Append(f, r)) = Len(f) + 1 /\ Append(f, r)[Len(f) + 1] = r
    OBVIOUS
  <1>2. \A i \in 1..Len(f) : Append(f, r)[i] = f[i]
    OBVIOUS
  <1>3. \A i \in 1..Len(Append(f, r)) : i \in 1..Len(f) \/ i = Len(f) + 1
    BY <1>1
  <1> QED  BY <1>1, <1>2, <1>3 DEF Logged

\* What is stored is stored.
LEMMA LoggedConv ==
    ASSUME Inv
    PROVE  /\ Logged(conv.entries)
           /\ conv.entries \in Seq(Entry) /\ mem.entries \in Seq(Entry)
           /\ conv \in Conversation /\ mem \in Conversation
  <1>1. conv \in Conversation /\ mem \in Conversation
    BY DEF Inv, TypeOK
  <1>2. conv.entries \in Seq(Entry) /\ mem.entries \in Seq(Entry)
    BY <1>1 DEF Conversation
  <1>3. Logged(conv.entries)
    BY <1>2 DEF Logged
  <1> QED  BY <1>1, <1>2, <1>3

\* A row that is no request, on a copy.
LEMMA LoggedRow ==
    ASSUME NEW c \in Conversation, Logged(c.entries), NEW r \in Entry, r.kind # "request"
    PROVE  Logged(appendEntry(c, r).entries) /\ appendEntry(c, r) \in Conversation
  <1> DEFINE f == Append(c.entries, r)
  <1>0. c.entries \in Seq(Entry)
    BY DEF Conversation
  <1>1. f \in Seq(Entry) /\ Logged(f)
    BY <1>0, LoggedAppend
  <1>2. appendEntry(c, r) = [c EXCEPT !.entries = f]
    BY DEF appendEntry
  <1> HIDE DEF f
  <1>3. [c EXCEPT !.entries = f].entries = f /\ [c EXCEPT !.entries = f] \in Conversation
    BY <1>1 DEF Conversation
  <1> QED  BY <1>1, <1>2, <1>3

\* A row of text is none.
LEMMA TextRow ==
    ASSUME NEW k \in {"assistant", "error"}
    PROVE  Row(k) \in Entry /\ Row(k).kind # "request"
  BY RowTypes

\* Writing such a copy back.
LEMMA LoggedReturn ==
    ASSUME Inv, NEW c, Logged(c.entries), WriteAndReturn(c)
    PROVE  Logged(mem'.entries) /\ pc' = "idle"
  <1>1. (mem' = c \/ mem' = conv) /\ pc' = "idle"
    BY DEF WriteAndReturn, Return
  <1> QED  BY <1>1, LoggedConv

\* Escalating with such a copy.
LEMMA LoggedEscalate ==
    ASSUME Inv, NEW c \in Conversation, Logged(c.entries), escalateByKey(c)
    PROVE  Logged(mem'.entries)
  <1> DEFINE n == c.escalations + 1
             a == appendEntry(c, Row("error"))
             e == [a EXCEPT !.escalations = n]
             x == [e EXCEPT !.status = "failed", !.lease = "none", !.question = NoQuestion]
             y == suspended(e, "user", EscalationKey(n))
  <1>1. Logged(a.entries) /\ a \in Conversation
    BY TextRow, LoggedRow
  <1>2. WriteAndReturn(x) \/ RaiseThenWrite(EscalationKey(n), y)
    BY DEF escalateByKey
  <1> HIDE DEF a, n
  <1>3. x.entries = a.entries /\ y.entries = a.entries
    BY <1>1 DEF suspended, Conversation
  <1> HIDE DEF x, y
  <1>4. CASE WriteAndReturn(x)
    BY <1>1, <1>3, <1>4, LoggedReturn
  <1>5. CASE RaiseThenWrite(EscalationKey(n), y)
    <2>1. mem' = y
      BY <1>5 DEF RaiseThenWrite
    <2> QED  BY <1>1, <1>3, <2>1
  <1> QED  BY <1>2, <1>4, <1>5

\* The scans ask for no approval.
LEMMA ScanLogged ==
    ASSUME Inv, Scan
    PROVE  Logged(mem'.entries)
  <1>1. CASE scanAnswered
    <2> DEFINE q == conv.question
               row == IF q \in DOMAIN questions THEN AnswerRow(q) ELSE Row("error")
               a == appendEntry(conv, row)
               r == [a EXCEPT !.status = "running", !.waitingFor = "", !.question = NoQuestion]
    <2>1. mem' = r
      BY <1>1 DEF scanAnswered, RunTurn
    <2>2. q \in QuestionKey
      BY LoggedConv DEF Conversation
    <2>3. AnswerRow(q) \in Entry /\ AnswerRow(q).kind # "request"
      BY <2>2, RowTypes
    <2>4. row \in Entry /\ row.kind # "request"
      BY <2>3, TextRow
    <2> HIDE DEF row
    <2>5. Logged(a.entries) /\ a \in Conversation
      BY <2>4, LoggedConv, LoggedRow
    <2> HIDE DEF a
    <2>6. r.entries = a.entries
      BY <2>5 DEF Conversation
    <2> HIDE DEF r
    <2> QED  BY <2>1, <2>5, <2>6
  <1>2. CASE scanExpiredLeases \/ scanRunnable
    <2>1. mem'.entries = conv.entries
      BY <1>2, LoggedConv DEF scanExpiredLeases, scanRunnable, RunTurn, Conversation
    <2> QED  BY <2>1, LoggedConv
  <1> QED  BY <1>1, <1>2 DEF Scan

\* Nor do the guards.
LEMMA GuardsLogged ==
    ASSUME Inv, Logged(mem.entries), Guards
    PROVE  Logged(mem'.entries)
  <1>0. mem \in Conversation
    BY LoggedConv
  <1>1. CASE endBecauseFull
    <2> DEFINE m == IF Len(mem.entries) < MaxEntries THEN appendEntry(mem, Row("error")) ELSE mem
               x == [m EXCEPT !.status = "failed", !.waitingFor = "",
                              !.lease = "none", !.question = NoQuestion]
    <2>1. Logged(m.entries) /\ m \in Conversation
      BY <1>0, TextRow, LoggedRow
    <2>2. WriteAndReturn(x)
      BY <1>1 DEF endBecauseFull
    <2> HIDE DEF m
    <2>3. x.entries = m.entries
      BY <2>1 DEF Conversation
    <2> HIDE DEF x
    <2> QED  BY <2>1, <2>2, <2>3, LoggedReturn
  <1>2. CASE UnknownAssistant \/ TurnsExhausted
    <2> DEFINE x == [Claimed EXCEPT !.maxTurns = @ + TurnGrant]
    <2>1. Claimed \in Conversation /\ Claimed.entries = mem.entries
      BY <1>0 DEF Claimed, Conversation
    <2>2. x \in Conversation /\ x.entries = mem.entries
      <3>1. TurnGrant \in Nat
        BY ConstantsAssumption
      <3>2. Claimed.maxTurns \in Nat
        BY <2>1 DEF Conversation
      <3>3. Claimed.maxTurns + TurnGrant \in Nat
        BY <3>1, <3>2
      <3> QED  BY <2>1, <3>3 DEF Conversation
    <2>3. escalateByKey(Claimed) \/ escalateByKey(x)
      BY <1>2 DEF UnknownAssistant, TurnsExhausted
    <2> HIDE DEF x
    <2> QED  BY <2>1, <2>2, <2>3, LoggedEscalate
  <1>3. CASE DisabledAssistant
    <2> DEFINE x == [mem EXCEPT !.lease = "none"]
    <2>1. WriteAndReturn(x)
      BY <1>3 DEF DisabledAssistant
    <2>2. x.entries = mem.entries
      BY <1>0 DEF Conversation
    <2> HIDE DEF x
    <2> QED  BY <2>1, <2>2, LoggedReturn
  <1>4. CASE BeginTurn
    <2>1. mem'.entries = mem.entries
      BY <1>0, <1>4 DEF BeginTurn, Claimed, Conversation
    <2> QED  BY <2>1
  <1> QED  BY <1>1, <1>2, <1>3, <1>4 DEF Guards

\* Nor does recovery.
LEMMA ReconcileLogged ==
    ASSUME Inv, Logged(mem.entries), reconcile
    PROVE  Logged(mem'.entries)
  <1> DEFINE u == unresolvedIntent(mem.entries)
             e == mem.entries
  <1>0. pc = "reconciling"
    BY DEF reconcile, ReconcileUnavailable, ReconcileRead, ReconcilePost, ReconcileQuestion
  <1>1. Unresolved(e) # {} /\ e \in Seq(Entry) /\ mem \in Conversation /\ RowsOK(e)
    BY <1>0 DEF Inv, TypeOK, Ctl, Conversation
  <1>2. u \in 1..Len(e)
    BY <1>1, FirstUnresolved
  <1>3. Interrupted \in Entry
    BY <1>1, <1>2 DEF Interrupted
  <1>4. Interrupted.op \in Ops \cup {"none"} /\ Interrupted.args \in Args \cup {NoArgs}
        /\ Interrupted.key \in Nat
    BY <1>3 DEF Entry
  <1>5. ASSUME NEW a \in Args \cup {NoArgs}
        PROVE  LET m == appendEntry(mem, ResultRow(Interrupted.op, Interrupted.key, a))
               IN  Logged(m.entries) /\ m \in Conversation
    <2> DEFINE r == ResultRow(Interrupted.op, Interrupted.key, a)
    <2>1. r \in Entry /\ r.kind # "request"
      BY <1>4, ResultRowType
    <2> HIDE DEF r
    <2>2. Logged(appendEntry(mem, r).entries) /\ appendEntry(mem, r) \in Conversation
      BY <1>1, <2>1, LoggedRow
    <2> QED  BY <2>2 DEF r
  <1>6. ASSUME NEW m, Logged(m.entries), Write(m, "thinking", turn)
        PROVE  Logged(mem'.entries)
    <2>1. mem' = m \/ mem' = conv
      BY <1>6 DEF Write, Return
    <2> QED  BY <1>6, <2>1, LoggedConv
  <1>7. ASSUME NEW a \in Args \cup {NoArgs}, settle(a)
        PROVE  Logged(mem'.entries)
    BY <1>5, <1>6, <1>7 DEF settle
  <1>8. CASE ReconcileUnavailable \/ ReconcileRead \/ ReconcilePost
    BY <1>4, <1>7, <1>8 DEF ReconcileUnavailable, ReconcileRead, ReconcilePost
  <1>9. CASE ReconcileQuestion
    <2> DEFINE m == appendEntry(mem, ResultRow(Interrupted.op, Interrupted.key, NoArgs))
               w == IF Interrupted.op = "ask" THEN "user" ELSE "tool"
               x == suspended(m, w, CallKey(Interrupted.key))
    <2>1. Logged(m.entries) /\ m \in Conversation
      BY <1>5
    <2>2. escalateByKey(m) \/ Write(m, "thinking", turn) \/ WriteAndReturn(x)
      BY <1>9 DEF ReconcileQuestion
    <2> HIDE DEF m
    <2>3. x.entries = m.entries
      BY <2>1 DEF suspended, Conversation
    <2> HIDE DEF x
    <2> QED  BY <1>6, <2>1, <2>2, <2>3, LoggedEscalate, LoggedReturn
  <1> QED  BY <1>8, <1>9 DEF reconcile

\* Nor does the model.
LEMMA LlmLogged ==
    ASSUME Inv, Logged(mem.entries), Llm
    PROVE  Logged(mem'.entries)
  <1>1. mem \in Conversation
    BY LoggedConv
  <1> DEFINE counted == [mem EXCEPT !.turns = @ + 1]
             a == appendEntry(mem, Row("assistant"))
             m == appendEntry(mem, Row("error"))
             x == [a EXCEPT !.turns = @ + 1, !.status = "done", !.lease = "none"]
  <1>2. counted \in Conversation /\ counted.entries = mem.entries
    <2>1. mem.turns \in Nat
      BY <1>1 DEF Conversation
    <2>2. mem.turns + 1 \in Nat
      BY <2>1
    <2> QED  BY <1>1, <2>2 DEF Conversation
  <1>3. Logged(m.entries) /\ m \in Conversation /\ Logged(a.entries) /\ a \in Conversation
    BY <1>1, TextRow, LoggedRow
  <1>4. x.entries = a.entries
    <2> HIDE DEF a
    <2> QED  BY <1>3 DEF Conversation
  <1>5. \/ mem' = m \/ mem' = counted
        \/ escalateByKey(m) \/ escalateByKey(mem) \/ escalateByKey(counted)
        \/ WriteAndReturn(x)
    BY DEF Llm, LlmTransientError, LlmError, LlmFinishes, LlmWantsTools
  <1> HIDE DEF counted, a, m, x
  <1> QED  BY <1>1, <1>2, <1>3, <1>4, <1>5, LoggedEscalate, LoggedReturn

\* Of the tool calls only raiseApproval does.
LEMMA CallsLogged ==
    ASSUME Inv, Logged(mem.entries), Calls, ~raiseApproval
    PROVE  Logged(mem'.entries)
  <1>0. mem \in Conversation /\ mem.entries \in Seq(Entry)
    BY LoggedConv
  <1>1. ASSUME pc \in {"refusing", "gating", "executing"}, NEW a \in Args \cup {NoArgs}
        PROVE  Logged(Recorded(a).entries) /\ Recorded(a) \in Conversation
    <2> DEFINE r == ResultRow(Current.op, CurrentKey, a)
    <2>1. Current \in Call /\ CurrentKey \in Nat
      BY <1>1, InHandFacts
    <2>2. Current.op \in Ops \cup {"none"}
      BY <2>1 DEF Call
    <2>3. r \in Entry /\ r.kind # "request"
      BY <2>1, <2>2, ResultRowType
    <2> HIDE DEF r
    <2>4. Logged(appendEntry(mem, r).entries) /\ appendEntry(mem, r) \in Conversation
      BY <1>0, <2>3, LoggedRow
    <2> QED  BY <2>4 DEF Recorded, r
  <1>2. ASSUME pc \in {"refusing", "gating", "executing"}, NEW a \in Args \cup {NoArgs}, Record(a)
        PROVE  Logged(mem'.entries)
    <2>1. mem' = Recorded(a)
      BY <1>2 DEF Record, Recorded
    <2> QED  BY <1>1, <1>2, <2>1
  <1>3. ASSUME pc \in {"refusing", "gating", "executing"}, NEW w, NEW q
        PROVE  Logged(Pending(mem, w, q).entries)
    <2>1. Pending(mem, w, q) = suspended(Recorded(NoArgs), w, q)
      BY DEF Pending, Recorded
    <2>2. Recorded(NoArgs) \in Conversation /\ Logged(Recorded(NoArgs).entries)
      BY <1>1, <1>3
    <2>3. suspended(Recorded(NoArgs), w, q).entries = Recorded(NoArgs).entries
      BY <2>2 DEF suspended, Conversation
    <2> QED  BY <2>1, <2>2, <2>3
  <1>4. CASE WriteIntent
    <2> DEFINE r == IntentRow(Head(turn.calls), Len(mem.entries) + 1)
               m == appendEntry(mem, r)
    <2>1. mem' = m \/ mem' = conv
      BY <1>4 DEF WriteIntent, Write, Return
    <2>2. turn.calls \in Seq(Call) /\ turn.calls # <<>>
      BY <1>4 DEF WriteIntent, Inv, TypeOK
    <2>3. Head(turn.calls) \in Call
      BY <2>2
    <2>4. r \in Entry /\ r.kind # "request"
      BY <1>0, <2>3, RowTypes
    <2> HIDE DEF r
    <2>5. Logged(m.entries)
      BY <1>0, <2>4, LoggedRow
    <2> HIDE DEF m
    <2> QED  BY <2>1, <2>5, LoggedConv
  <1>5. CASE RefuseUnresolved \/ ExecuteRead
    BY <1>2, <1>5 DEF RefuseUnresolved, ExecuteRead
  <1>6. CASE gateOnApproval
    <2> DEFINE q == mem.entries[LastRequest(mem.entries, Current.args)].q
    <2>1. pc = "gating"
      BY <1>6 DEF gateOnApproval
    <2>2. mem' = mem \/ Record(NoArgs) \/ WriteAndReturn(Pending(mem, "user", q))
      BY <1>6 DEF gateOnApproval
    <2> HIDE DEF q
    <2>3. Logged(Pending(mem, "user", q).entries)
      BY <1>3, <2>1
    <2> QED  BY <1>2, <2>1, <2>2, <2>3, LoggedReturn
  <1>7. CASE ExecutePost
    <2>1. pc = "executing" /\ Current.op = "post" /\ (Record(Current.args) \/ Record(NoArgs))
      BY <1>7 DEF ExecutePost
    <2>2. Current.args \in Args
      BY <2>1, InHandFacts
    <2> QED  BY <1>2, <2>1, <2>2
  <1>8. CASE ExecuteQuestion
    <2> DEFINE q == CallKey(CurrentKey)
               w == IF Current.op = "ask" THEN "user" ELSE "tool"
    <2>1. pc = "executing"
      BY <1>8 DEF ExecuteQuestion
    <2>2. mem' = Pending(mem, w, q) \/ Record(NoArgs)
      BY <1>8 DEF ExecuteQuestion, RaiseThenWrite
    <2> HIDE DEF q, w
    <2> QED  BY <1>2, <1>3, <2>1, <2>2
  <1>9. CASE EndTurn
    <2> DEFINE x == [mem EXCEPT !.lease = "none", !.status = "running"]
    <2>1. WriteAndReturn(x)
      BY <1>9 DEF EndTurn
    <2>2. x.entries = mem.entries
      BY <1>0 DEF Conversation
    <2> HIDE DEF x
    <2> QED  BY <2>1, <2>2, LoggedReturn
  <1> QED  BY <1>4, <1>5, <1>6, <1>7, <1>8, <1>9 DEF Calls

\* The approval questions are those of before, and none opens again.
NoNewApproval ==
    \A q \in DOMAIN questions' : q.kind = "approval" =>
        q \in DOMAIN questions /\ (questions'[q] = "open" => questions[q] = "open")

\* A question of another kind.
LEMMA OtherQuestion ==
    ASSUME NEW q, q.kind # "approval", Raise(q)
    PROVE  NoNewApproval
  BY DEF Raise, NoNewApproval

\* Escalating asks for no approval.
LEMMA EscalateAsks ==
    ASSUME NEW c, escalateByKey(c)  PROVE NoNewApproval
  <1>1. questions' = questions \/ \E n : Raise(EscalationKey(n))
    BY DEF escalateByKey, RaiseThenWrite
  <1>2. \A n : EscalationKey(n).kind # "approval"
    BY DEF EscalationKey
  <1>3. CASE questions' = questions
    BY <1>3 DEF NoNewApproval
  <1>4. ASSUME NEW n, Raise(EscalationKey(n))  PROVE NoNewApproval
    BY <1>2, <1>4, OtherQuestion
  <1> QED  BY <1>1, <1>3, <1>4

\* Only raiseApproval asks for one.
LEMMA QuestionsStep ==
    ASSUME Inv, [Next]_vars, ~raiseApproval
    PROVE  NoNewApproval
  <1>1. CASE UNCHANGED questions
    BY <1>1 DEF NoNewApproval
  <1>2. CASE \E c : escalateByKey(c)
    BY <1>2, EscalateAsks
  <1>3. CASE \E n : Raise(CallKey(n))
    <2>1. PICK n : Raise(CallKey(n))
      BY <1>3
    <2>2. CallKey(n).kind # "approval"
      BY DEF CallKey
    <2> QED  BY <2>1, <2>2, OtherQuestion
  <1>4. CASE \E q \in DOMAIN questions : UserDeletes(q) \/ \E a \in Answered : UserAnswers(q, a)
    <2>1. PICK q \in DOMAIN questions : UserDeletes(q) \/ \E a \in Answered : UserAnswers(q, a)
      BY <1>4
    <2>2. CASE UserDeletes(q)
      BY <2>2 DEF UserDeletes, NoNewApproval
    <2>3. ASSUME NEW a \in Answered, UserAnswers(q, a)  PROVE NoNewApproval
      <3>1. questions' = [questions EXCEPT ![q] = a] /\ a # "open"
        BY <2>3 DEF UserAnswers, Answered
      <3> QED  BY <3>1 DEF NoNewApproval
    <2> QED  BY <2>1, <2>2, <2>3
  <1>5. CASE Scan \/ WriteBack \/ LeaseExpires \/ Crash
             \/ (\E op \in Ops : UserSwitches(op))
             \/ (\E a \in {"enabled", "disabled", "gone"} : UserSetsAssistant(a)) \/ UNCHANGED vars
    BY <1>1, <1>5 DEF Scan, scanAnswered, scanExpiredLeases, scanRunnable, WriteBack, LeaseExpires,
       Crash, UserSwitches, UserSetsAssistant, vars
  <1>6. CASE Guards \/ reconcile \/ Llm
    <2>1. UNCHANGED questions \/ \E c : escalateByKey(c)
      BY <1>6 DEF Guards, endBecauseFull, UnknownAssistant, DisabledAssistant, TurnsExhausted, BeginTurn,
         reconcile, ReconcileUnavailable, ReconcileRead, ReconcilePost, ReconcileQuestion, settle,
         Llm, LlmTransientError, LlmError, LlmFinishes, LlmWantsTools
    <2> QED  BY <1>1, <1>2, <2>1
  <1>7. CASE Calls
    <2>1. UNCHANGED questions \/ \E n : Raise(CallKey(n))
      BY <1>7 DEF Calls, WriteIntent, RefuseUnresolved, gateOnApproval, ExecutePost, ExecuteQuestion,
         ExecuteRead, EndTurn, RaiseThenWrite
    <2> QED  BY <1>1, <1>3, <2>1
  <1> QED  BY <1>4, <1>5, <1>6, <1>7 DEF Next, Runtime, User

\* The questions about one set of arguments are numbered as the transcript counts the requests.
Requests(e, a) == Cardinality(approvalRequestsFor(e, a))
Approval(a, n) == [kind |-> "approval", args |-> a, n |-> n]

\* The last request names the question of its number.
LastIsNumbered(e) ==
    \A a \in Args : \A i \in approvalRequestsFor(e, a) :
        (\A j \in approvalRequestsFor(e, a) : j <= i) => e[i].q = Approval(a, Requests(e, a))

\* A question is one of those recorded or the next; only the last recorded and the next may be
\* open, and there is no next one while the last is.
QuestionOK(qs, e, q) ==
    /\ q.args \in Args
    /\ q.n >= 1 /\ q.n <= Requests(e, q.args) + 1
    /\ qs[q] = "open" => q.n >= Requests(e, q.args)
    /\ qs[q] = "open" /\ q.n = Requests(e, q.args) =>
           Approval(q.args, Requests(e, q.args) + 1) \notin DOMAIN qs

\* A copy about to be written asks for approval a, and no other question about it is open.
AsksFor(qs, e, f, a) ==
    /\ Prefix(e, f)
    /\ Len(f) = Len(e) + 2
    /\ f[Len(e) + 1] = RequestRow(a, Approval(a, Requests(e, a) + 1))
    /\ f[Len(e) + 2].kind # "request"
    /\ \A q \in DOMAIN qs :
           q.kind = "approval" /\ q.args = a /\ qs[q] = "open" => q.n = Requests(e, a) + 1

\* What the questions are to the transcript.
Asking ==
    /\ LastIsNumbered(conv.entries)
    /\ \A q \in DOMAIN questions : q.kind = "approval" => QuestionOK(questions, conv.entries, q)
    /\ Logged(mem.entries) \/ (pc = "writing" /\ \E a \in Args : AsksFor(questions, conv.entries, mem.entries, a))

\* Rows that are no requests leave the numbering as it was.
LEMMA SameRequests ==
    ASSUME NEW e \in Seq(Entry), NEW f \in Seq(Entry), Prefix(e, f),
           \A i \in 1..Len(f) : f[i].kind = "request" => i <= Len(e)
    PROVE  /\ \A a : Requests(f, a) = Requests(e, a)
           /\ LastIsNumbered(e) => LastIsNumbered(f)
  <1>1. ASSUME NEW a  PROVE approvalRequestsFor(f, a) = approvalRequestsFor(e, a)
    <2>1. \A i \in 1..Len(e) : i \in 1..Len(f) /\ f[i] = e[i]
      BY DEF Prefix
    <2>2. \A i \in 1..Len(f) : i <= Len(e) => i \in 1..Len(e)
      OBVIOUS
    <2> QED  BY <2>1, <2>2 DEF approvalRequestsFor, Positions
  <1>2. \A a : Requests(f, a) = Requests(e, a)
    BY <1>1 DEF Requests
  <1>3. ASSUME NEW a, NEW i \in approvalRequestsFor(e, a)  PROVE f[i] = e[i]
    BY DEF approvalRequestsFor, Positions, Prefix
  <1>4. ASSUME LastIsNumbered(e), NEW a \in Args, NEW i \in approvalRequestsFor(f, a),
               \A j \in approvalRequestsFor(f, a) : j <= i
        PROVE  f[i].q = Approval(a, Requests(f, a))
    <2>1. i \in approvalRequestsFor(e, a) /\ \A j \in approvalRequestsFor(e, a) : j <= i
      BY <1>1, <1>4
    <2>2. e[i].q = Approval(a, Requests(e, a))
      BY <1>4, <2>1 DEF LastIsNumbered
    <2> QED  BY <1>2, <1>3, <2>1, <2>2
  <1> QED  BY <1>2, <1>4 DEF LastIsNumbered

\* The requests in a transcript are counted by a natural number.
LEMMA RequestsFinite ==
    ASSUME NEW e \in Seq(Entry), NEW a
    PROVE  IsFiniteSet(approvalRequestsFor(e, a)) /\ Requests(e, a) \in Nat
  <1>1. Len(e) \in Nat /\ 1 \in Int
    OBVIOUS
  <1>2. IsFiniteSet(1..Len(e))
    BY <1>1, FS_Interval
  <1>3. approvalRequestsFor(e, a) \subseteq 1..Len(e)
    BY DEF approvalRequestsFor, Positions
  <1>4. IsFiniteSet(approvalRequestsFor(e, a))
    BY <1>2, <1>3, FS_Subset
  <1> QED  BY <1>4, FS_CardinalityType DEF Requests

\* A question that stays, on a transcript with the same requests.
LEMMA QuestionStillOK ==
    ASSUME NoNewApproval, NEW e, NEW f, \A a : Requests(f, a) = Requests(e, a),
           \A q \in DOMAIN questions : q.kind = "approval" => QuestionOK(questions, e, q),
           NEW q \in DOMAIN questions', q.kind = "approval"
    PROVE  QuestionOK(questions', f, q)
  <1>1. q \in DOMAIN questions /\ (questions'[q] = "open" => questions[q] = "open")
    BY DEF NoNewApproval
  <1>2. QuestionOK(questions, e, q)
    BY <1>1
  <1>3. ASSUME NEW a, NEW n, Approval(a, n) \notin DOMAIN questions
        PROVE  Approval(a, n) \notin DOMAIN questions'
    BY <1>3 DEF NoNewApproval, Approval
  <1> QED  BY <1>1, <1>2, <1>3 DEF QuestionOK

\* A step that asks for no approval and, at most, withdraws or settles questions.
LEMMA QuietAsking ==
    ASSUME Inv, Asking, Kept, Logged(mem'.entries), NoNewApproval
    PROVE  Asking'
  <1> DEFINE e == conv.entries
             f == conv'.entries
             m == mem'.entries
  <1>1. e \in Seq(Entry)
    BY LoggedConv
  <1>2. f \in Seq(Entry) /\ m \in Seq(Entry) /\ Prefix(e, f) /\ Prefix(f, m)
    BY DEF Kept, Inv, TypeOK, Ctl, Conversation
  <1>3. \A i \in 1..Len(m) : m[i].kind = "request" => i <= Len(e)
    BY DEF Logged
  <1>4. LastIsNumbered(e) /\ \A q \in DOMAIN questions : q.kind = "approval" => QuestionOK(questions, e, q)
    BY DEF Asking
  <1>5. Logged(mem.entries)'
    <2>1. Len(e) <= Len(f) /\ Len(e) \in Nat /\ Len(f) \in Nat /\ Len(m) \in Nat
      BY <1>1, <1>2 DEF Prefix
    <2>2. \A i \in 1..Len(m) : m[i].kind = "request" => i <= Len(f)
      BY <1>3, <2>1
    <2> QED  BY <2>2 DEF Logged
  <1> HIDE DEF e, f, m
  <1>6. \A i \in 1..Len(f) : f[i].kind = "request" => i <= Len(e)
    BY <1>2, <1>3 DEF Prefix
  <1>7. LastIsNumbered(f) /\ \A a : Requests(f, a) = Requests(e, a)
    BY <1>1, <1>2, <1>4, <1>6, SameRequests
  <1>8. ASSUME NEW q \in DOMAIN questions', q.kind = "approval"  PROVE QuestionOK(questions', f, q)
    BY <1>4, <1>7, <1>8, QuestionStillOK
  <1>9. LastIsNumbered(conv.entries)'
    BY <1>7 DEF f
  <1>10. (\A q \in DOMAIN questions : q.kind = "approval" => QuestionOK(questions, conv.entries, q))'
    BY <1>8 DEF f
  <1> QED  BY <1>5, <1>9, <1>10 DEF Asking

\* The last request for a is the one findApproval looks at.
LEMMA LastNumber ==
    ASSUME NEW e \in Seq(Entry), LastIsNumbered(e), NEW a \in Args, Requests(e, a) # 0
    PROVE  /\ approvalRequestsFor(e, a) # {}
           /\ e[LastRequest(e, a)].q = Approval(a, Requests(e, a))
  <1> DEFINE S == approvalRequestsFor(e, a)
  <1>1. S # {}
    BY FS_EmptySet DEF Requests
  <1>2. S \subseteq 1..Len(e) /\ Len(e) \in Nat
    BY DEF approvalRequestsFor, Positions
  <1>3. \E x \in S : \A y \in S : y <= x
    <2> HIDE DEF S
    <2> QED  BY <1>1, <1>2, GreatestExists
  <1>4. LastRequest(e, a) \in S /\ \A y \in S : y <= LastRequest(e, a)
    BY <1>3 DEF LastRequest
  <1> QED  BY <1>1, <1>4 DEF LastIsNumbered

\* An approval is asked for only when no other question about these arguments is open.
LEMMA NoneOpen ==
    ASSUME NEW e \in Seq(Entry), LastIsNumbered(e), NEW a \in Args,
           findApproval(e, a) \in {"missing", "consumed"},
           NEW p \in DOMAIN questions, p \in QuestionKey, QuestionOK(questions, e, p),
           p.kind = "approval", p.args = a, questions[p] = "open"
    PROVE  p.n = Requests(e, a) + 1
  <1>1. Requests(e, a) \in Nat
    BY RequestsFinite
  <1>2. p.n \in Nat /\ p.n >= 1 /\ p.n <= Requests(e, a) + 1 /\ p.n >= Requests(e, a)
    BY DEF QuestionOK, QuestionKey
  <1>3. SUFFICES ASSUME p.n = Requests(e, a)  PROVE FALSE
    BY <1>1, <1>2
  <1>4. Requests(e, a) # 0
    BY <1>1, <1>2, <1>3
  <1>5. p = Approval(a, Requests(e, a))
    BY <1>3 DEF Approval, QuestionKey
  <1>6. approvalRequestsFor(e, a) # {} /\ e[LastRequest(e, a)].q = p
    BY <1>4, <1>5, LastNumber
  <1>7. findApproval(e, a) = "waiting"
    BY <1>6 DEF findApproval
  <1> QED  BY <1>7

\* Raising an approval.
LEMMA RaiseAsking ==
    ASSUME Inv, Asking, raiseApproval
    PROVE  Asking'
  <1> DEFINE e == mem.entries
             a == Current.args
             N == Requests(e, a)
             q == Approval(a, N + 1)
             r == RequestRow(a, q)
             s == ResultRow("post", CurrentKey, NoArgs)
             f == e \o <<r, s>>
  <1>1. pc = "gating" /\ findApproval(e, a) \in {"missing", "consumed"} /\ Raise(ApprovalKey(e, a))
        /\ pc' = "writing" /\ conv' = conv
    BY DEF raiseApproval
  <1>2. conv = mem /\ e \in Seq(Entry) /\ a \in Args /\ CurrentKey \in Nat
    <2>1. Current.op = "post"
      BY <1>1 DEF Inv, Ctl
    <2> QED  BY <1>1, <2>1, InHandFacts
  <1>3. N \in Nat
    BY <1>2, RequestsFinite
  <1>4. q = ApprovalKey(e, a) /\ q \in QuestionKey /\ q.kind = "approval" /\ q.args = a /\ q.n = N + 1
    BY <1>2, <1>3 DEF Approval, ApprovalKey, Requests, QuestionKey
  <1>5. mem'.entries = f
    <2> DEFINE P == Pending(mem, "user", ApprovalKey(e, a))
    <2>1. mem' = [P EXCEPT !.entries = e \o <<RequestRow(a, ApprovalKey(e, a)), s>>]
      BY DEF raiseApproval
    <2>2. P \in Conversation
      BY <1>1, <1>4, PendingOK DEF Continues
    <2> HIDE DEF P
    <2>3. mem'.entries = e \o <<RequestRow(a, ApprovalKey(e, a)), s>>
      BY <2>1, <2>2 DEF Conversation
    <2> QED  BY <1>4, <2>3
  <1>6. LastIsNumbered(e) /\ \A p \in DOMAIN questions : p.kind = "approval" => QuestionOK(questions, e, p)
    BY <1>2 DEF Asking
  <1>7. DOMAIN questions \subseteq QuestionKey
    BY DEF Inv, TypeOK
  <1> HIDE DEF q, N
  <1>8. /\ DOMAIN questions' = DOMAIN questions \cup {q}
        /\ \A p \in DOMAIN questions : questions'[p] = questions[p]
    BY <1>1, <1>4 DEF Raise
  <1> HIDE DEF e, a
  <1>9. ASSUME NEW p \in DOMAIN questions', p.kind = "approval", p.args = a, questions'[p] = "open"
        PROVE  p.n = N + 1
    <2>1. CASE p = q
      BY <1>4, <2>1
    <2>2. CASE p \in DOMAIN questions
      BY <1>1, <1>2, <1>6, <1>7, <1>8, <1>9, <2>2, NoneOpen DEF N
    <2> QED  BY <1>8, <2>1, <2>2
  <1>10. ASSUME NEW p \in DOMAIN questions', p.kind = "approval"
         PROVE  QuestionOK(questions', e, p)
    <2>1. CASE p.args = a
      <3>1. p.n >= 1 /\ p.n <= N + 1
        BY <1>3, <1>4, <1>6, <1>8, <1>10, <2>1 DEF QuestionOK, N
      <3>2. questions'[p] = "open" => p.n = N + 1
        BY <1>9, <1>10, <2>1
      <3> QED  BY <1>2, <1>3, <2>1, <3>1, <3>2 DEF QuestionOK, N
    <2>2. CASE p.args # a
      <3>1. p \in DOMAIN questions
        BY <1>4, <1>8, <2>2
      <3>2. QuestionOK(questions, e, p) /\ questions'[p] = questions[p]
        BY <1>6, <1>8, <1>10, <3>1
      <3>3. \A n : Approval(p.args, n) # q
        BY <1>4, <2>2 DEF Approval
      <3> QED  BY <1>8, <3>2, <3>3 DEF QuestionOK
    <2> QED  BY <2>1, <2>2
  <1>11. AsksFor(questions', e, f, a)
    <2>1. r \in Entry
      BY <1>2, <1>4, RowTypes
    <2>2. s \in Entry /\ s.kind = "result"
      <3>1. "post" \in Ops \cup {"none"}
        BY DEF Ops
      <3> QED  BY <1>2, <3>1, ResultRowType
    <2> HIDE DEF r, s
    <2>3. Prefix(e, f) /\ Len(f) = Len(e) + 2 /\ f[Len(e) + 1] = r /\ f[Len(e) + 2] = s
      BY <1>2, <2>1, <2>2 DEF Prefix
    <2> HIDE DEF f
    <2>4. f[Len(e) + 1] = RequestRow(a, Approval(a, Requests(e, a) + 1))
      BY <2>3 DEF r, q, N
    <2>5. \A p \in DOMAIN questions' :
             p.kind = "approval" /\ p.args = a /\ questions'[p] = "open" => p.n = Requests(e, a) + 1
      BY <1>9 DEF N
    <2> QED  BY <2>2, <2>3, <2>4, <2>5 DEF AsksFor
  <1>12. conv'.entries = e
    BY <1>1, <1>2 DEF e
  <1>13. LastIsNumbered(conv.entries)'
    BY <1>6, <1>12
  <1>14. (\A p \in DOMAIN questions : p.kind = "approval" => QuestionOK(questions, conv.entries, p))'
    BY <1>10, <1>12
  <1>15. (\E b \in Args : AsksFor(questions, conv.entries, mem.entries, b))'
    BY <1>2, <1>5, <1>11, <1>12
  <1> QED  BY <1>1, <1>13, <1>14, <1>15 DEF Asking

\* Recording the request moves the numbering on by one, for its arguments only.
LEMMA RequestRecorded ==
    ASSUME NEW e \in Seq(Entry), NEW f \in Seq(Entry), NEW a \in Args, AsksFor(questions, e, f, a),
           LastIsNumbered(e)
    PROVE  /\ Requests(f, a) = Requests(e, a) + 1
           /\ \A b \in Args : b # a => Requests(f, b) = Requests(e, b)
           /\ LastIsNumbered(f)
  <1> DEFINE k == Len(e) + 1
             q == Approval(a, Requests(e, a) + 1)
  <1>1. Requests(e, a) \in Nat /\ IsFiniteSet(approvalRequestsFor(e, a)) /\ Len(e) \in Nat
    BY RequestsFinite
  <1>2. q \in QuestionKey
    BY <1>1 DEF Approval, QuestionKey
  <1>3. f[k] = RequestRow(a, q) /\ f[k + 1].kind # "request" /\ Len(f) = k + 1
        /\ \A i \in 1..Len(e) : f[i] = e[i]
    BY <1>1 DEF AsksFor, Prefix
  <1> HIDE DEF q
  <1>4. f[k].kind = "request" /\ f[k].args = a /\ f[k].q = q
    BY <1>2, <1>3, RowTypes
  <1>5. \A i \in 1..Len(f) : i \in 1..Len(e) \/ i = k \/ i = k + 1
    BY <1>1, <1>3
  <1>6. k \in 1..Len(f) /\ k \notin 1..Len(e) /\ \A i \in 1..Len(e) : i \in 1..Len(f)
    BY <1>1, <1>3
  <1> HIDE DEF k
  <1>7. approvalRequestsFor(f, a) = approvalRequestsFor(e, a) \cup {k} /\ k \notin approvalRequestsFor(e, a)
    BY <1>3, <1>4, <1>5, <1>6 DEF approvalRequestsFor, Positions
  <1>8. ASSUME NEW b \in Args, b # a  PROVE approvalRequestsFor(f, b) = approvalRequestsFor(e, b)
    BY <1>3, <1>4, <1>5, <1>6, <1>8 DEF approvalRequestsFor, Positions
  <1>9. Requests(f, a) = Requests(e, a) + 1
    BY <1>1, <1>7, FS_AddElement DEF Requests
  <1>10. \A b \in Args : b # a => Requests(f, b) = Requests(e, b)
    BY <1>8 DEF Requests
  <1>11. ASSUME NEW b \in Args, NEW i \in approvalRequestsFor(f, b),
                \A j \in approvalRequestsFor(f, b) : j <= i
         PROVE  f[i].q = Approval(b, Requests(f, b))
    <2>1. CASE b = a
      <3>1. k <= i /\ i \in approvalRequestsFor(e, a) \cup {k}
        BY <1>7, <1>11, <2>1
      <3>2. \A j \in approvalRequestsFor(e, a) : j \in 1..Len(e)
        BY DEF approvalRequestsFor, Positions
      <3>3. i = k
        BY <1>1, <3>1, <3>2 DEF k
      <3> QED  BY <1>4, <1>9, <2>1, <3>3 DEF q
    <2>2. CASE b # a
      <3>1. i \in approvalRequestsFor(e, b) /\ \A j \in approvalRequestsFor(e, b) : j <= i
        BY <1>8, <1>11, <2>2
      <3>2. e[i].q = Approval(b, Requests(e, b))
        BY <3>1 DEF LastIsNumbered
      <3>3. i \in 1..Len(e)
        BY <3>1 DEF approvalRequestsFor, Positions
      <3> QED  BY <1>3, <1>10, <2>2, <3>2, <3>3
    <2> QED  BY <2>1, <2>2
  <1> QED  BY <1>9, <1>10, <1>11 DEF LastIsNumbered

\* Writing back the copy that holds the request, or failing to.
LEMMA WriteBackAsking ==
    ASSUME Inv, Asking, Kept, WriteBack, NoNewApproval
    PROVE  Asking'
  <1> DEFINE e == conv.entries
             f == mem.entries
  <1>0. e \in Seq(Entry) /\ f \in Seq(Entry)
    BY LoggedConv
  <1>1. questions' = questions /\ ((conv' = mem /\ mem' = mem) \/ (conv' = conv /\ mem' = conv))
    BY DEF WriteBack, WriteAndReturn, Return
  <1>2. CASE Logged(mem'.entries)
    BY <1>2, QuietAsking
  <1>3. CASE ~Logged(mem'.entries)
    <2>1. conv' = mem /\ mem' = mem
      BY <1>1, <1>3, LoggedConv
    <2>2. PICK a \in Args : AsksFor(questions, e, f, a)
      BY <1>3, <2>1 DEF Asking
    <2>3. LastIsNumbered(e) /\ \A q \in DOMAIN questions : q.kind = "approval" => QuestionOK(questions, e, q)
      BY DEF Asking
    <2>4. conv'.entries = f /\ mem'.entries = f
      BY <2>1
    <2> HIDE DEF e, f
    <2>5. /\ Requests(f, a) = Requests(e, a) + 1
          /\ \A b \in Args : b # a => Requests(f, b) = Requests(e, b)
          /\ LastIsNumbered(f)
      BY <1>0, <2>2, <2>3, RequestRecorded
    <2>6. Requests(e, a) \in Nat
      BY <1>0, RequestsFinite
    <2>7. ASSUME NEW q \in DOMAIN questions, q.kind = "approval"  PROVE QuestionOK(questions, f, q)
      <3>0. QuestionOK(questions, e, q)
        BY <2>3, <2>7
      <3>1. CASE q.args = a
        <4>1. q.n \in Nat
          BY DEF Inv, TypeOK, QuestionKey
        <4>2. q.n >= 1 /\ q.n <= Requests(e, a) + 1
          BY <3>0, <3>1 DEF QuestionOK
        <4>3. questions[q] = "open" => q.n = Requests(e, a) + 1
          BY <2>2, <2>7, <3>1 DEF AsksFor
        <4>4. Approval(a, Requests(e, a) + 2) \notin DOMAIN questions
          <5> DEFINE p == Approval(a, Requests(e, a) + 2)
          <5>1. p.kind = "approval" /\ p.args = a /\ p.n = Requests(e, a) + 2
            BY DEF Approval
          <5> HIDE DEF p
          <5>2. p \in DOMAIN questions => p.n <= Requests(e, a) + 1
            BY <2>3, <5>1 DEF QuestionOK
          <5>3. p \notin DOMAIN questions
            BY <2>6, <5>1, <5>2
          <5> QED  BY <5>3 DEF p
        <4>5. Requests(f, a) + 1 = Requests(e, a) + 2
          BY <2>5, <2>6
        <4> HIDE DEF Approval
        <4>6. Approval(q.args, Requests(f, q.args) + 1) \notin DOMAIN questions
          BY <3>1, <4>4, <4>5
        <4> QED  BY <2>5, <2>6, <3>1, <4>1, <4>2, <4>3, <4>6 DEF QuestionOK
      <3>2. CASE q.args # a
        <4>1. Requests(f, q.args) = Requests(e, q.args)
          BY <2>5, <3>0, <3>2 DEF QuestionOK
        <4> QED  BY <3>0, <4>1 DEF QuestionOK
      <3> QED  BY <3>1, <3>2
    <2>8. Logged(mem.entries)'
      <3>1. \A i \in 1..Len(f) : i <= Len(f)
        BY <1>0
      <3> QED  BY <2>4, <3>1 DEF Logged
    <2>9. LastIsNumbered(conv.entries)'
      BY <2>4, <2>5
    <2>10. (\A q \in DOMAIN questions : q.kind = "approval" => QuestionOK(questions, conv.entries, q))'
      BY <1>1, <2>4, <2>7
    <2> QED  BY <2>8, <2>9, <2>10 DEF Asking
  <1> QED  BY <1>2, <1>3

\* What the User does to the questions, while a copy may be on its way to the store.
LEMMA UserAsking ==
    ASSUME Inv, Asking, UNCHANGED <<conv, mem, pc>>, NoNewApproval
    PROVE  Asking'
  <1> DEFINE e == conv.entries
             f == mem.entries
  <1>1. conv'.entries = e /\ mem'.entries = f /\ pc' = pc
    OBVIOUS
  <1>2. LastIsNumbered(e) /\ \A q \in DOMAIN questions : q.kind = "approval" => QuestionOK(questions, e, q)
    BY DEF Asking
  <1>3. Logged(f) => Logged(mem.entries)'
    BY <1>1 DEF Logged
  <1>4. Logged(f) \/ (pc = "writing" /\ \E a \in Args : AsksFor(questions, e, f, a))
    BY DEF Asking
  <1> HIDE DEF e, f
  <1>5. ASSUME NEW a \in Args, AsksFor(questions, e, f, a)  PROVE AsksFor(questions', e, f, a)
    <2>1. ASSUME NEW q \in DOMAIN questions', q.kind = "approval", q.args = a, questions'[q] = "open"
          PROVE  q.n = Requests(e, a) + 1
      <3>1. q \in DOMAIN questions /\ questions[q] = "open"
        BY <2>1 DEF NoNewApproval
      <3> QED  BY <1>5, <2>1, <3>1 DEF AsksFor
    <2> QED  BY <1>5, <2>1 DEF AsksFor
  <1>6. ASSUME NEW q \in DOMAIN questions', q.kind = "approval"  PROVE QuestionOK(questions', e, q)
    BY <1>2, <1>6, QuestionStillOK
  <1>7. LastIsNumbered(conv.entries)'
    BY <1>1, <1>2
  <1>8. (\A q \in DOMAIN questions : q.kind = "approval" => QuestionOK(questions, conv.entries, q))'
    BY <1>1, <1>6
  <1>9. (\E a \in Args : AsksFor(questions, e, f, a)) =>
            (\E a \in Args : AsksFor(questions, conv.entries, mem.entries, a))'
    BY <1>1, <1>5
  <1>10. Logged(mem.entries)'
            \/ (pc' = "writing" /\ (\E a \in Args : AsksFor(questions, conv.entries, mem.entries, a))')
    BY <1>1, <1>3, <1>4, <1>9
  <1> QED  BY <1>7, <1>8, <1>10 DEF Asking

\* Every step keeps the questions and the transcript in line.
LEMMA NextAsking ==
    ASSUME ConstantsAssumption, Inv, Asking, [Next]_vars
    PROVE  Asking'
  <1>0. Kept
    BY NextInv
  <1>1. CASE raiseApproval
    BY <1>1, RaiseAsking
  <1>2. CASE ~raiseApproval
    <2>0. NoNewApproval
      BY <1>2, QuestionsStep
    <2>1. CASE WriteBack
      BY <1>0, <2>0, <2>1, WriteBackAsking
    <2>2. CASE User \/ UNCHANGED vars
      <3>1. UNCHANGED <<conv, mem, pc>>
        BY <2>2 DEF User, UserDeletes, UserAnswers, UserSwitches, UserSetsAssistant, vars
      <3> QED  BY <2>0, <3>1, UserAsking
    <2>3. CASE Crash \/ LeaseExpires
      <3>1. mem'.entries = conv.entries
        BY <2>3, LoggedConv DEF Crash, LeaseExpires, Return, Conversation
      <3>2. Logged(mem'.entries)
        BY <3>1, LoggedConv
      <3> QED  BY <1>0, <2>0, <3>2, QuietAsking
    <2>4. CASE Scan
      BY <1>0, <2>0, <2>4, ScanLogged, QuietAsking
    <2>5. CASE Guards \/ reconcile \/ Llm \/ Calls
      <3>1. pc # "writing"
        BY <2>5 DEF Guards, endBecauseFull, UnknownAssistant, DisabledAssistant, TurnsExhausted, BeginTurn,
           reconcile, ReconcileUnavailable, ReconcileRead, ReconcilePost, ReconcileQuestion,
           Llm, LlmTransientError, LlmError, LlmFinishes, LlmWantsTools,
           Calls, WriteIntent, RefuseUnresolved, gateOnApproval, raiseApproval, ExecutePost,
           ExecuteQuestion, ExecuteRead, EndTurn
      <3>2. Logged(mem.entries)
        BY <3>1 DEF Asking
      <3>3. Logged(mem'.entries)
        BY <1>2, <2>5, <3>2, GuardsLogged, ReconcileLogged, LlmLogged, CallsLogged
      <3> QED  BY <1>0, <2>0, <3>3, QuietAsking
    <2> QED  BY <2>1, <2>2, <2>3, <2>4, <2>5 DEF Next, Runtime
  <1> QED  BY <1>1, <1>2

\* A Conversation is born with no request and no question.
LEMMA InitAsking ==
    ASSUME ConstantsAssumption, Init
    PROVE  Asking
  <1>1. Inv
    BY InitInv
  <1>2. conv = mem /\ conv.entries = <<Row("prompt")>> /\ DOMAIN questions = {}
    BY DEF Init, Born
  <1>3. Row("prompt").kind = "prompt"
    BY RowTypes
  <1>4. \A a : approvalRequestsFor(conv.entries, a) = {}
    <2> HIDE DEF Row
    <2> QED  BY <1>2, <1>3 DEF approvalRequestsFor, Positions
  <1>5. LastIsNumbered(conv.entries)
    BY <1>4 DEF LastIsNumbered
  <1>6. Logged(mem.entries)
    BY <1>1, <1>2, LoggedConv
  <1> QED  BY <1>2, <1>5, <1>6 DEF Asking

\* ADR-0018 (advance.ts, raiseApproval: the key counts the attempts): one decision is one row on
\* the User's list.  However a Turn is interrupted between raising an approval and recording it,
\* and whatever the User answers or deletes, a booking never has two open questions.
THEOREM OneDecisionOneQuestion == Spec => []OneOpenApproval
  <1>1. Init => Inv /\ Asking
    BY InitInv, InitAsking, ConstantsAssumption
  <1>2. Inv /\ Asking /\ [Next]_vars => Inv' /\ Asking'
    BY NextInv, NextAsking, ConstantsAssumption DEF Kept
  <1>3. ASSUME Inv, Asking  PROVE OneOpenApproval
    <2> SUFFICES ASSUME NEW q1 \in DOMAIN questions, NEW q2 \in DOMAIN questions,
                        q1.kind = "approval", q2.kind = "approval", q1.args = q2.args,
                        questions[q1] = "open", questions[q2] = "open"
                 PROVE  q1 = q2
      BY DEF OneOpenApproval
    <2> DEFINE N == Requests(conv.entries, q1.args)
    <2>1. q1 \in QuestionKey /\ q2 \in QuestionKey
      BY <1>3 DEF Inv, TypeOK
    <2>2. QuestionOK(questions, conv.entries, q1) /\ QuestionOK(questions, conv.entries, q2)
      BY <1>3 DEF Asking
    <2>3. N \in Nat
      BY <1>3, LoggedConv, RequestsFinite
    <2>4. q1.n \in Nat /\ q2.n \in Nat
      BY <2>1 DEF QuestionKey
    <2>5. /\ q1.n >= N /\ q1.n <= N + 1 /\ q2.n >= N /\ q2.n <= N + 1
          /\ (q1.n = N \/ q2.n = N) => Approval(q1.args, N + 1) \notin DOMAIN questions
      BY <2>2 DEF QuestionOK
    <2>6. q1 = Approval(q1.args, q1.n) /\ q2 = Approval(q1.args, q2.n)
      BY <2>1 DEF QuestionKey, Approval
    <2> HIDE DEF N
    <2>7. q1.n = q2.n
      <3>1. (q1.n = N \/ q1.n = N + 1) /\ (q2.n = N \/ q2.n = N + 1)
        BY <2>3, <2>4, <2>5
      <3> QED  BY <2>5, <2>6, <3>1
    <2> QED  BY <2>6, <2>7
  <1> QED  BY <1>1, <1>2, <1>3, PTL DEF Spec

-----------------------------------------------------------------------------
(***************************************************************************)
(* Receipts                                                                *)
(***************************************************************************)

\* A row in which the model speaks: a call, or its last word.
Speaks(r) == r.kind \in {"intent", "assistant"}

\* The result in row j names an earlier call of the same tool, and the model is silent between.
PairAt(e, j) ==
    /\ e[j].key \in 1..(j - 1)
    /\ e[e[j].key].kind = "intent"
    /\ e[e[j].key].op = e[j].op
    /\ \A i \in (e[j].key + 1)..j : ~Speaks(e[i])

\* Every result is one of a pair, and no call has two.
Paired(e) ==
    \A j \in Positions(e, "result") :
        /\ PairAt(e, j)
        /\ \A i \in Positions(e, "result") : e[i].key = e[j].key => i = j

\* Nor does it speak after a call that is unresolved.
Latest(e) == \A k \in Unresolved(e) : \A i \in (k + 1)..Len(e) : ~Speaks(e[i])

Ordered(e) == Paired(e) /\ Latest(e)

\* What is known of an unresolved call.
LEMMA UnresolvedFacts ==
    ASSUME NEW f \in Seq(Entry), RowsOK(f), NEW k \in Unresolved(f)
    PROVE  /\ k \in 1..Len(f) /\ f[k].kind = "intent"
           /\ \A i \in Positions(f, "result") : f[i].key # k
  BY DEF Unresolved, Resolved, Positions, RowsOK, RowOK

\* The rows of a longer transcript.
LEMMA AppendRows ==
    ASSUME NEW f \in Seq(Entry), NEW r \in Entry
    PROVE  /\ Len(f) \in Nat /\ Len(Append(f, r)) = Len(f) + 1
           /\ Append(f, r) \in Seq(Entry)
           /\ Append(f, r)[Len(f) + 1] = r
           /\ \A i \in 1..Len(f) : Append(f, r)[i] = f[i]
           /\ r.kind # "result" => Positions(Append(f, r), "result") = Positions(f, "result")
           /\ r.kind = "result" => Positions(Append(f, r), "result") = Positions(f, "result") \cup {Len(f) + 1}
           /\ Positions(f, "result") \subseteq 1..Len(f)
  BY DEF Positions

\* The pairs of a transcript stay when another row follows.
LEMMA PairedKept ==
    ASSUME NEW f \in Seq(Entry), NEW r \in Entry, Paired(f), NEW j \in Positions(f, "result"),
           NEW g, g = Append(f, r)
    PROVE  /\ g[j] = f[j]
           /\ PairAt(g, j)
  <1>1. Len(f) \in Nat /\ j \in 1..Len(f) /\ \A i \in 1..Len(f) : g[i] = f[i]
    BY AppendRows
  <1>2. g[j] = f[j] /\ f[j].key \in 1..(j - 1)
    BY <1>1 DEF Paired, PairAt
  <1>3. f[j].key \in 1..Len(f)
    BY <1>1, <1>2
  <1>4. \A i \in (f[j].key + 1)..j : i \in 1..Len(f)
    BY <1>1, <1>3
  <1>5. /\ f[f[j].key].kind = "intent" /\ f[f[j].key].op = f[j].op
        /\ \A i \in (f[j].key + 1)..j : ~Speaks(f[i])
    BY DEF Paired, PairAt
  <1>6. \A i \in (f[j].key + 1)..j : ~Speaks(g[i])
    BY <1>1, <1>4, <1>5
  <1>7. g[f[j].key] = f[f[j].key]
    BY <1>1, <1>3
  <1> QED  BY <1>2, <1>5, <1>6, <1>7 DEF PairAt

\* A row that is neither call nor result: the model's last word only when no call is unresolved.
LEMMA OrderedPlain ==
    ASSUME NEW f \in Seq(Entry), NEW r \in Entry, Ordered(f), r.kind \notin {"intent", "result"},
           r.kind = "assistant" => Unresolved(f) = {}
    PROVE  Ordered(Append(f, r))
  <1> DEFINE g == Append(f, r)
  <1>1. /\ Len(f) \in Nat /\ Len(g) = Len(f) + 1 /\ g[Len(f) + 1] = r
        /\ \A i \in 1..Len(f) : g[i] = f[i]
        /\ Positions(g, "result") = Positions(f, "result") /\ Positions(f, "result") \subseteq 1..Len(f)
    BY AppendRows
  <1>2. Unresolved(g) = Unresolved(f)
    BY AppendOther
  <1>3. ASSUME NEW j \in Positions(g, "result")
        PROVE  /\ PairAt(g, j)
               /\ \A i \in Positions(g, "result") : g[i].key = g[j].key => i = j
    <2>1. j \in Positions(f, "result")
      BY <1>1
    <2>2. \A i \in Positions(f, "result") : f[i].key = f[j].key => i = j
      BY <2>1 DEF Ordered, Paired
    <2>3. \A i \in Positions(g, "result") : g[i].key = g[j].key => i = j
      BY <1>1, <2>1, <2>2
    <2>4. g = Append(f, r) /\ Paired(f)
      BY DEF Ordered
    <2> HIDE DEF g
    <2>5. PairAt(g, j)
      BY <2>1, <2>4, PairedKept
    <2> QED  BY <2>3, <2>5
  <1>4. ASSUME NEW k \in Unresolved(g), NEW i \in (k + 1)..Len(g)  PROVE ~Speaks(g[i])
    <2>1. k \in Unresolved(f) /\ k \in 1..Len(f)
      BY <1>2 DEF Unresolved, Positions
    <2>2. (i \in (k + 1)..Len(f) /\ i \in 1..Len(f)) \/ i = Len(f) + 1
      BY <1>1, <1>4, <2>1
    <2>3. ~Speaks(r)
      BY <2>1 DEF Speaks
    <2> QED  BY <1>1, <2>1, <2>2, <2>3 DEF Ordered, Latest
  <1> QED  BY <1>3, <1>4 DEF Ordered, Paired, Latest

\* The result of an unresolved call.
LEMMA OrderedResult ==
    ASSUME NEW f \in Seq(Entry), NEW r \in Entry, Ordered(f), RowsOK(f), r.kind = "result",
           r.key \in Unresolved(f), r.op = f[r.key].op
    PROVE  Ordered(Append(f, r))
  <1> DEFINE g == Append(f, r)
             n == Len(f) + 1
  <1>1. /\ Len(f) \in Nat /\ Len(g) = n /\ g[n] = r
        /\ \A i \in 1..Len(f) : g[i] = f[i]
        /\ Positions(g, "result") = Positions(f, "result") \cup {n} /\ Positions(f, "result") \subseteq 1..Len(f)
    BY AppendRows
  <1>2. Unresolved(g) = Unresolved(f) \ {r.key}
    BY AppendResult
  <1>3. /\ r.key \in 1..Len(f) /\ f[r.key].kind = "intent"
        /\ \A i \in Positions(f, "result") : f[i].key # r.key
    BY UnresolvedFacts
  <1>4. \A i \in (r.key + 1)..Len(f) : ~Speaks(f[i])
    BY DEF Ordered, Latest
  <1> HIDE DEF g
  <1>5. ASSUME NEW j \in Positions(g, "result")
        PROVE  /\ PairAt(g, j)
               /\ \A i \in Positions(g, "result") : g[i].key = g[j].key => i = j
    <2>1. CASE j \in Positions(f, "result")
      <3>1. \A i \in Positions(f, "result") : f[i].key = f[j].key => i = j
        BY <2>1 DEF Ordered, Paired
      <3>2. \A i \in Positions(f, "result") : g[i] = f[i]
        BY <1>1
      <3>3. g[n].key # g[j].key
        BY <1>1, <1>3, <2>1, <3>2
      <3>4. \A i \in Positions(g, "result") : g[i].key = g[j].key => i = j
        BY <1>1, <2>1, <3>1, <3>2, <3>3
      <3>5. g = Append(f, r) /\ Paired(f)
        BY DEF Ordered, g
      <3>6. PairAt(g, j)
        BY <2>1, <3>5, PairedKept
      <3> QED  BY <3>4, <3>6
    <2>2. CASE j = n
      <3>1. g[j] = r /\ r.key \in 1..(j - 1) /\ g[r.key] = f[r.key]
        BY <1>1, <1>3, <2>2
      <3>2. ASSUME NEW i \in (r.key + 1)..j  PROVE ~Speaks(g[i])
        <4>1. (i \in (r.key + 1)..Len(f) /\ i \in 1..Len(f)) \/ i = n
          BY <1>1, <1>3, <2>2
        <4> QED  BY <1>1, <1>4, <4>1 DEF Speaks
      <3>3. ASSUME NEW i \in Positions(g, "result"), g[i].key = r.key  PROVE i = j
        BY <1>1, <1>3, <2>2, <3>3
      <3> QED  BY <1>3, <3>1, <3>2, <3>3 DEF PairAt
    <2> QED  BY <1>1, <2>1, <2>2
  <1>6. ASSUME NEW k \in Unresolved(g), NEW i \in (k + 1)..Len(g)  PROVE ~Speaks(g[i])
    <2>1. k \in Unresolved(f) /\ k \in 1..Len(f)
      BY <1>2 DEF Unresolved, Positions
    <2>2. (i \in (k + 1)..Len(f) /\ i \in 1..Len(f)) \/ i = n
      BY <1>1, <1>6, <2>1
    <2>3. ~Speaks(r)
      BY DEF Speaks
    <2> QED  BY <1>1, <2>1, <2>2, <2>3 DEF Ordered, Latest
  <1>7. Ordered(g)
    BY <1>5, <1>6 DEF Ordered, Paired, Latest
  <1> QED  BY <1>7 DEF g

\* A call, when no other is unresolved.
LEMMA OrderedIntent ==
    ASSUME NEW f \in Seq(Entry), NEW r \in Entry, Ordered(f), RowsOK(f), r.kind = "intent",
           r.key = Len(f) + 1, Unresolved(f) = {}
    PROVE  Ordered(Append(f, r))
  <1> DEFINE g == Append(f, r)
  <1>1. /\ Len(f) \in Nat /\ Len(g) = Len(f) + 1
        /\ \A i \in 1..Len(f) : g[i] = f[i]
        /\ Positions(g, "result") = Positions(f, "result") /\ Positions(f, "result") \subseteq 1..Len(f)
    BY AppendRows
  <1>2. Unresolved(g) = {Len(f) + 1}
    BY AppendIntent
  <1> HIDE DEF g
  <1>3. ASSUME NEW j \in Positions(g, "result")
        PROVE  /\ PairAt(g, j)
               /\ \A i \in Positions(g, "result") : g[i].key = g[j].key => i = j
    <2>1. j \in Positions(f, "result")
      BY <1>1
    <2>2. \A i \in Positions(f, "result") : f[i].key = f[j].key => i = j
      BY <2>1 DEF Ordered, Paired
    <2>3. \A i \in Positions(g, "result") : g[i].key = g[j].key => i = j
      BY <1>1, <2>1, <2>2
    <2>4. g = Append(f, r) /\ Paired(f)
      BY DEF Ordered, g
    <2>5. PairAt(g, j)
      BY <2>1, <2>4, PairedKept
    <2> QED  BY <2>3, <2>5
  <1>4. ASSUME NEW k \in Unresolved(g), NEW i \in (k + 1)..Len(g)  PROVE ~Speaks(g[i])
    BY <1>1, <1>2, <1>4
  <1>5. Ordered(g)
    BY <1>3, <1>4 DEF Ordered, Paired, Latest
  <1> QED  BY <1>5 DEF g

\* The stored transcript is ordered if the copy is.
LEMMA OrderedPrefix ==
    ASSUME NEW e \in Seq(Entry), NEW f \in Seq(Entry), Prefix(e, f), RowsOK(f), Ordered(f)
    PROVE  Ordered(e)
  <1>1. Len(e) \in Nat /\ Len(f) \in Nat /\ Len(e) <= Len(f) /\ \A i \in 1..Len(e) : i \in 1..Len(f) /\ f[i] = e[i]
    BY DEF Prefix
  <1>2. \A j \in Positions(e, "result") : j \in 1..Len(e) /\ j \in Positions(f, "result")
    BY <1>1 DEF Positions
  <1>3. ASSUME NEW j \in Positions(e, "result")
        PROVE  /\ PairAt(e, j)
               /\ \A i \in Positions(e, "result") : e[i].key = e[j].key => i = j
    <2>1. j \in 1..Len(e) /\ j \in Positions(f, "result") /\ f[j] = e[j]
      BY <1>1, <1>2
    <2>2. /\ f[j].key \in 1..(j - 1) /\ f[f[j].key].kind = "intent" /\ f[f[j].key].op = f[j].op
          /\ \A i \in (f[j].key + 1)..j : ~Speaks(f[i])
      BY <2>1 DEF Ordered, Paired, PairAt
    <2>3. \A i \in Positions(f, "result") : f[i].key = f[j].key => i = j
      BY <2>1 DEF Ordered, Paired
    <2>4. e[j].key \in 1..Len(e)
      BY <1>1, <2>1, <2>2
    <2>5. \A i \in (e[j].key + 1)..j : i \in 1..Len(e)
      BY <1>1, <2>1, <2>4
    <2>6. \A i \in Positions(e, "result") : e[i].key = e[j].key => i = j
      BY <1>1, <1>2, <2>1, <2>3
    <2> QED  BY <1>1, <2>1, <2>2, <2>4, <2>5, <2>6 DEF PairAt
  <1>4. ASSUME NEW k \in Unresolved(e), NEW i \in (k + 1)..Len(e), Speaks(e[i])  PROVE FALSE
    <2>1. k \in 1..Len(e) /\ e[k].kind = "intent" /\ ~Resolved(e, e[k].key)
      BY DEF Unresolved, Positions
    <2>2. i \in 1..Len(e) /\ i \in (k + 1)..Len(f) /\ Speaks(f[i])
      BY <1>1, <1>4, <2>1
    <2>3. CASE k \in Unresolved(f)
      BY <2>2, <2>3 DEF Ordered, Latest
    <2>4. CASE k \notin Unresolved(f)
      <3>1. Resolved(f, e[k].key)
        BY <1>1, <2>1, <2>4 DEF Unresolved, Positions
      <3>2. PICK j \in Positions(f, "result") : f[j].key = e[k].key
        BY <3>1 DEF Resolved
      <3>3. e[k].key = k
        BY <1>1, <2>1 DEF RowsOK, RowOK
      <3>4. j \in 1..Len(f) /\ j \notin 1..Len(e)
        <4>1. j \in 1..Len(f) /\ f[j].kind = "result"
          BY DEF Positions
        <4>2. j \in 1..Len(e) => j \in Positions(e, "result") /\ e[j].key = e[k].key
          BY <1>1, <3>2, <4>1 DEF Positions
        <4> QED  BY <2>1, <4>1, <4>2 DEF Resolved
      <3>5. i \in (k + 1)..j
        BY <1>1, <2>1, <2>2, <3>4
      <3> QED  BY <2>2, <3>2, <3>3, <3>5 DEF Ordered, Paired, PairAt
    <2> QED  BY <2>3, <2>4
  <1> QED  BY <1>3, <1>4 DEF Ordered, Paired, Latest

\* What is stored is ordered.
LEMMA OrderedConv ==
    ASSUME Inv, Ordered(mem.entries)
    PROVE  /\ Ordered(conv.entries)
           /\ conv.entries \in Seq(Entry) /\ mem.entries \in Seq(Entry)
           /\ conv \in Conversation /\ mem \in Conversation
           /\ RowsOK(mem.entries)
  <1>1. conv \in Conversation /\ mem \in Conversation /\ conv.entries \in Seq(Entry)
        /\ mem.entries \in Seq(Entry)
    BY LoggedConv
  <1>2. Prefix(conv.entries, mem.entries) /\ RowsOK(mem.entries)
    BY DEF Inv, Ctl
  <1> QED  BY <1>1, <1>2, OrderedPrefix

\* Such a row, on a copy.
LEMMA OrderedRow ==
    ASSUME NEW c \in Conversation, Ordered(c.entries), NEW r \in Entry, r.kind \notin {"intent", "result"},
           r.kind = "assistant" => Unresolved(c.entries) = {}
    PROVE  Ordered(appendEntry(c, r).entries) /\ appendEntry(c, r) \in Conversation
  <1> DEFINE f == Append(c.entries, r)
  <1>0. c.entries \in Seq(Entry)
    BY DEF Conversation
  <1>1. f \in Seq(Entry) /\ Ordered(f)
    BY <1>0, OrderedPlain
  <1>2. appendEntry(c, r) = [c EXCEPT !.entries = f]
    BY DEF appendEntry
  <1> HIDE DEF f
  <1>3. [c EXCEPT !.entries = f].entries = f /\ [c EXCEPT !.entries = f] \in Conversation
    BY <1>1 DEF Conversation
  <1> QED  BY <1>1, <1>2, <1>3

\* A row of text is neither.
LEMMA PlainRow ==
    ASSUME NEW k \in {"assistant", "error"}
    PROVE  Row(k) \in Entry /\ Row(k).kind \notin {"intent", "result"} /\ Row(k).kind = k
  BY RowTypes

\* The result of an unresolved call, on a copy.
LEMMA OrderedSettled ==
    ASSUME Inv, Ordered(mem.entries), NEW r \in Entry, r.kind = "result", r.key \in Unresolved(mem.entries),
           r.op = mem.entries[r.key].op
    PROVE  Ordered(appendEntry(mem, r).entries) /\ appendEntry(mem, r) \in Conversation
  <1> DEFINE f == Append(mem.entries, r)
  <1>1. f \in Seq(Entry) /\ Ordered(f) /\ mem \in Conversation
    BY OrderedConv, OrderedResult
  <1>2. appendEntry(mem, r) = [mem EXCEPT !.entries = f]
    BY DEF appendEntry
  <1> HIDE DEF f
  <1>3. [mem EXCEPT !.entries = f].entries = f /\ [mem EXCEPT !.entries = f] \in Conversation
    BY <1>1 DEF Conversation
  <1> QED  BY <1>1, <1>2, <1>3

\* Writing such a copy back.
LEMMA OrderedReturn ==
    ASSUME Inv, Ordered(mem.entries), NEW c, Ordered(c.entries), WriteAndReturn(c)
    PROVE  Ordered(mem'.entries) /\ pc' = "idle"
  <1>1. (mem' = c \/ mem' = conv) /\ pc' = "idle"
    BY DEF WriteAndReturn, Return
  <1> QED  BY <1>1, OrderedConv

\* Escalating with such a copy.
LEMMA OrderedEscalate ==
    ASSUME Inv, Ordered(mem.entries), NEW c \in Conversation, Ordered(c.entries), escalateByKey(c)
    PROVE  Ordered(mem'.entries)
  <1> DEFINE n == c.escalations + 1
             a == appendEntry(c, Row("error"))
             e == [a EXCEPT !.escalations = n]
             x == [e EXCEPT !.status = "failed", !.lease = "none", !.question = NoQuestion]
             y == suspended(e, "user", EscalationKey(n))
  <1>1. Ordered(a.entries) /\ a \in Conversation
    BY PlainRow, OrderedRow
  <1>2. WriteAndReturn(x) \/ RaiseThenWrite(EscalationKey(n), y)
    BY DEF escalateByKey
  <1> HIDE DEF a, n
  <1>3. x.entries = a.entries /\ y.entries = a.entries
    BY <1>1 DEF suspended, Conversation
  <1> HIDE DEF x, y
  <1>4. CASE WriteAndReturn(x)
    BY <1>1, <1>3, <1>4, OrderedReturn
  <1>5. CASE RaiseThenWrite(EscalationKey(n), y)
    <2>1. mem' = y
      BY <1>5 DEF RaiseThenWrite
    <2> QED  BY <1>1, <1>3, <2>1
  <1> QED  BY <1>2, <1>4, <1>5

\* The scans append an answer.
LEMMA ScanOrdered ==
    ASSUME Inv, Ordered(mem.entries), Scan
    PROVE  Ordered(mem'.entries)
  <1>1. CASE scanAnswered
    <2> DEFINE q == conv.question
               row == IF q \in DOMAIN questions THEN AnswerRow(q) ELSE Row("error")
               a == appendEntry(conv, row)
               r == [a EXCEPT !.status = "running", !.waitingFor = "", !.question = NoQuestion]
    <2>1. mem' = r
      BY <1>1 DEF scanAnswered, RunTurn
    <2>2. q \in QuestionKey
      BY OrderedConv DEF Conversation
    <2>3. AnswerRow(q) \in Entry /\ AnswerRow(q).kind \notin {"intent", "result", "assistant"}
      BY <2>2, RowTypes
    <2>4. row \in Entry /\ row.kind \notin {"intent", "result", "assistant"}
      BY <2>3, PlainRow
    <2> HIDE DEF row
    <2>5. Ordered(a.entries) /\ a \in Conversation
      BY <2>4, OrderedConv, OrderedRow
    <2> HIDE DEF a
    <2>6. r.entries = a.entries
      BY <2>5 DEF Conversation
    <2> HIDE DEF r
    <2> QED  BY <2>1, <2>5, <2>6
  <1>2. CASE scanExpiredLeases \/ scanRunnable
    <2>1. mem'.entries = conv.entries
      BY <1>2, OrderedConv DEF scanExpiredLeases, scanRunnable, RunTurn, Conversation
    <2> QED  BY <2>1, OrderedConv
  <1> QED  BY <1>1, <1>2 DEF Scan

\* The guards append an error.
LEMMA GuardsOrdered ==
    ASSUME Inv, Ordered(mem.entries), Guards
    PROVE  Ordered(mem'.entries)
  <1>0. mem \in Conversation
    BY OrderedConv
  <1>1. CASE endBecauseFull
    <2> DEFINE m == IF Len(mem.entries) < MaxEntries THEN appendEntry(mem, Row("error")) ELSE mem
               x == [m EXCEPT !.status = "failed", !.waitingFor = "",
                              !.lease = "none", !.question = NoQuestion]
    <2>1. Ordered(m.entries) /\ m \in Conversation
      BY <1>0, PlainRow, OrderedRow
    <2>2. WriteAndReturn(x)
      BY <1>1 DEF endBecauseFull
    <2> HIDE DEF m
    <2>3. x.entries = m.entries
      BY <2>1 DEF Conversation
    <2> HIDE DEF x
    <2> QED  BY <2>1, <2>2, <2>3, OrderedReturn
  <1>2. CASE UnknownAssistant \/ TurnsExhausted
    <2> DEFINE x == [Claimed EXCEPT !.maxTurns = @ + TurnGrant]
    <2>1. Claimed \in Conversation /\ Claimed.entries = mem.entries
      BY <1>0 DEF Claimed, Conversation
    <2>2. x \in Conversation /\ x.entries = mem.entries
      <3>1. TurnGrant \in Nat
        BY ConstantsAssumption
      <3>2. Claimed.maxTurns \in Nat
        BY <2>1 DEF Conversation
      <3>3. Claimed.maxTurns + TurnGrant \in Nat
        BY <3>1, <3>2
      <3> QED  BY <2>1, <3>3 DEF Conversation
    <2>3. escalateByKey(Claimed) \/ escalateByKey(x)
      BY <1>2 DEF UnknownAssistant, TurnsExhausted
    <2> HIDE DEF x
    <2> QED  BY <2>1, <2>2, <2>3, OrderedEscalate
  <1>3. CASE DisabledAssistant
    <2> DEFINE x == [mem EXCEPT !.lease = "none"]
    <2>1. WriteAndReturn(x)
      BY <1>3 DEF DisabledAssistant
    <2>2. x.entries = mem.entries
      BY <1>0 DEF Conversation
    <2> HIDE DEF x
    <2> QED  BY <2>1, <2>2, OrderedReturn
  <1>4. CASE BeginTurn
    <2>1. mem'.entries = mem.entries
      BY <1>0, <1>4 DEF BeginTurn, Claimed, Conversation
    <2> QED  BY <2>1
  <1> QED  BY <1>1, <1>2, <1>3, <1>4 DEF Guards

\* Recovery appends the result of the interrupted call, and perhaps an error.
LEMMA ReconcileOrdered ==
    ASSUME Inv, Ordered(mem.entries), reconcile
    PROVE  Ordered(mem'.entries)
  <1> DEFINE u == unresolvedIntent(mem.entries)
             e == mem.entries
  <1>0. pc = "reconciling"
    BY DEF reconcile, ReconcileUnavailable, ReconcileRead, ReconcilePost, ReconcileQuestion
  <1>1. Unresolved(e) # {} /\ e \in Seq(Entry) /\ mem \in Conversation /\ RowsOK(e)
    BY <1>0 DEF Inv, TypeOK, Ctl, Conversation
  <1>2. u \in 1..Len(e)
    BY <1>1, FirstUnresolved
  <1>3. Interrupted \in Entry
    BY <1>1, <1>2 DEF Interrupted
  <1>10. u \in Unresolved(e) /\ Interrupted.key = u /\ Interrupted = e[u]
    BY <1>1, FirstUnresolved DEF Interrupted
  <1>4. Interrupted.op \in Ops \cup {"none"} /\ Interrupted.args \in Args \cup {NoArgs}
        /\ Interrupted.key \in Nat
    BY <1>3 DEF Entry
  <1>5. ASSUME NEW a \in Args \cup {NoArgs}
        PROVE  LET m == appendEntry(mem, ResultRow(Interrupted.op, Interrupted.key, a))
               IN  Ordered(m.entries) /\ m \in Conversation
    <2> DEFINE r == ResultRow(Interrupted.op, Interrupted.key, a)
    <2>1. r \in Entry /\ r.kind = "result" /\ r.key = Interrupted.key /\ r.op = Interrupted.op
      BY <1>4, ResultRowType
    <2> HIDE DEF r, u
    <2>2. r.key \in Unresolved(mem.entries) /\ r.op = mem.entries[r.key].op
      BY <1>10, <2>1
    <2>3. Ordered(appendEntry(mem, r).entries) /\ appendEntry(mem, r) \in Conversation
      BY <2>1, <2>2, OrderedSettled
    <2> QED  BY <2>3 DEF r
  <1>6. ASSUME NEW m, Ordered(m.entries), Write(m, "thinking", turn)
        PROVE  Ordered(mem'.entries)
    <2>1. mem' = m \/ mem' = conv
      BY <1>6 DEF Write, Return
    <2> QED  BY <1>6, <2>1, OrderedConv
  <1>7. ASSUME NEW a \in Args \cup {NoArgs}, settle(a)
        PROVE  Ordered(mem'.entries)
    BY <1>5, <1>6, <1>7 DEF settle
  <1>8. CASE ReconcileUnavailable \/ ReconcileRead \/ ReconcilePost
    BY <1>4, <1>7, <1>8 DEF ReconcileUnavailable, ReconcileRead, ReconcilePost
  <1>9. CASE ReconcileQuestion
    <2> DEFINE m == appendEntry(mem, ResultRow(Interrupted.op, Interrupted.key, NoArgs))
               w == IF Interrupted.op = "ask" THEN "user" ELSE "tool"
               x == suspended(m, w, CallKey(Interrupted.key))
    <2>1. Ordered(m.entries) /\ m \in Conversation
      BY <1>5
    <2>2. escalateByKey(m) \/ Write(m, "thinking", turn) \/ WriteAndReturn(x)
      BY <1>9 DEF ReconcileQuestion
    <2> HIDE DEF m
    <2>3. x.entries = m.entries
      BY <2>1 DEF suspended, Conversation
    <2> HIDE DEF x
    <2> QED  BY <1>6, <2>1, <2>2, <2>3, OrderedEscalate, OrderedReturn
  <1> QED  BY <1>8, <1>9 DEF reconcile

\* The model's failures and its last word are text.
LEMMA LlmOrdered ==
    ASSUME Inv, Ordered(mem.entries), Llm
    PROVE  Ordered(mem'.entries)
  <1>1. mem \in Conversation
    BY OrderedConv
  <1> DEFINE counted == [mem EXCEPT !.turns = @ + 1]
             a == appendEntry(mem, Row("assistant"))
             m == appendEntry(mem, Row("error"))
             x == [a EXCEPT !.turns = @ + 1, !.status = "done", !.lease = "none"]
  <1>2. counted \in Conversation /\ counted.entries = mem.entries
    <2>1. mem.turns \in Nat
      BY <1>1 DEF Conversation
    <2>2. mem.turns + 1 \in Nat
      BY <2>1
    <2> QED  BY <1>1, <2>2 DEF Conversation
  <1>2a. Unresolved(mem.entries) = {}
    BY DEF Llm, LlmTransientError, LlmError, LlmFinishes, LlmWantsTools, Inv, Ctl
  <1>3. Ordered(m.entries) /\ m \in Conversation /\ Ordered(a.entries) /\ a \in Conversation
    BY <1>1, <1>2a, PlainRow, OrderedRow
  <1>4. x.entries = a.entries
    <2> HIDE DEF a
    <2> QED  BY <1>3 DEF Conversation
  <1>5. \/ mem' = m \/ mem' = counted
        \/ escalateByKey(m) \/ escalateByKey(mem) \/ escalateByKey(counted)
        \/ WriteAndReturn(x)
    BY DEF Llm, LlmTransientError, LlmError, LlmFinishes, LlmWantsTools
  <1> HIDE DEF counted, a, m, x
  <1> QED  BY <1>1, <1>2, <1>3, <1>4, <1>5, OrderedEscalate, OrderedReturn

\* The call in hand is the unresolved one.
LEMMA InHandOp ==
    ASSUME Inv, pc \in {"refusing", "gating", "executing"}
    PROVE  CurrentKey \in Unresolved(mem.entries) /\ mem.entries[CurrentKey].op = Current.op
  <1>1. CurrentKey = Len(mem.entries) /\ Unresolved(mem.entries) = {CurrentKey} /\ Current \in Call
    BY InHandFacts
  <1>2. mem.entries[Len(mem.entries)] = IntentRow(Current, Len(mem.entries))
    BY DEF Inv, Ctl, InHand
  <1>3. IntentRow(Current, Len(mem.entries)).op = Current.op
    BY DEF IntentRow, Row
  <1> QED  BY <1>1, <1>2, <1>3

\* An approval is requested between the call and its pending result.
LEMMA RaiseOrdered ==
    ASSUME Inv, Ordered(mem.entries), raiseApproval
    PROVE  Ordered(mem'.entries)
  <1> DEFINE e == mem.entries
             q == ApprovalKey(e, Current.args)
             r == RequestRow(Current.args, q)
             s == ResultRow("post", CurrentKey, NoArgs)
             g == Append(e, r)
             P == Pending(mem, "user", q)
  <1>1. pc = "gating" /\ mem' = [P EXCEPT !.entries = e \o <<r, s>>]
    BY DEF raiseApproval
  <1>2. Current.op = "post" /\ e \in Seq(Entry) /\ RowsOK(e)
    BY <1>1, OrderedConv DEF Inv, Ctl
  <1>3. Current.args \in Args /\ CurrentKey \in Nat /\ CurrentKey \in 1..Len(e)
    BY <1>1, <1>2, InHandFacts
  <1>4. q \in QuestionKey /\ q.kind = "approval" /\ q.args = Current.args
    BY <1>2, <1>3, ApprovalKeyType
  <1>5. P \in Conversation
    BY <1>1, <1>4, PendingOK DEF Continues
  <1>6. CurrentKey \in Unresolved(e) /\ e[CurrentKey].op = "post"
    BY <1>1, <1>2, InHandOp
  <1> HIDE DEF q, P
  <1>7. r \in Entry /\ r.kind = "request" /\ r.args = Current.args /\ r.q = q
    BY <1>3, <1>4, RowTypes
  <1>8. s \in Entry /\ s.kind = "result" /\ s.key = CurrentKey /\ s.op = "post"
    <2>1. "post" \in Ops \cup {"none"}
      BY DEF Ops
    <2> QED  BY <1>3, <2>1, ResultRowType
  <1> HIDE DEF r, s
  <1>9. mem'.entries = Append(g, s)
    <2>1. e \o <<r, s>> = Append(g, s)
      BY <1>2, <1>7, <1>8
    <2> QED  BY <1>1, <1>5, <2>1 DEF Conversation
  <1>10. g \in Seq(Entry) /\ g[CurrentKey] = e[CurrentKey]
    BY <1>2, <1>3, <1>7
  <1>11. Ordered(g) /\ Unresolved(g) = Unresolved(e)
    BY <1>2, <1>7, OrderedPlain, AppendOther
  <1>12. RowsOK(g)
    <2>1. RowOK(r, Len(e) + 1)
      BY <1>4, <1>7 DEF RowOK
    <2> QED  BY <1>2, <1>7, <2>1, AppendRowsOK
  <1> HIDE DEF g
  <1>13. Ordered(Append(g, s))
    BY <1>6, <1>8, <1>10, <1>11, <1>12, OrderedResult
  <1> QED  BY <1>9, <1>13

\* A call is written when none is unresolved, and its result is the next row but for a request.
LEMMA CallsOrdered ==
    ASSUME Inv, Ordered(mem.entries), Calls
    PROVE  Ordered(mem'.entries)
  <1>0. mem \in Conversation /\ mem.entries \in Seq(Entry)
    BY OrderedConv
  <1>1. ASSUME pc \in {"refusing", "gating", "executing"}, NEW a \in Args \cup {NoArgs}
        PROVE  Ordered(Recorded(a).entries) /\ Recorded(a) \in Conversation
    <2> DEFINE r == ResultRow(Current.op, CurrentKey, a)
    <2>1. Current \in Call /\ CurrentKey \in Nat
      BY <1>1, InHandFacts
    <2>2. Current.op \in Ops \cup {"none"}
      BY <2>1 DEF Call
    <2>3. r \in Entry /\ r.kind = "result" /\ r.key = CurrentKey /\ r.op = Current.op
      BY <2>1, <2>2, ResultRowType
    <2>5. CurrentKey \in Unresolved(mem.entries) /\ mem.entries[CurrentKey].op = Current.op
      BY <1>1, InHandOp
    <2> HIDE DEF r
    <2>4. Ordered(appendEntry(mem, r).entries) /\ appendEntry(mem, r) \in Conversation
      BY <2>3, <2>5, OrderedSettled
    <2> QED  BY <2>4 DEF Recorded, r
  <1>2. ASSUME pc \in {"refusing", "gating", "executing"}, NEW a \in Args \cup {NoArgs}, Record(a)
        PROVE  Ordered(mem'.entries)
    <2>1. mem' = Recorded(a)
      BY <1>2 DEF Record, Recorded
    <2> QED  BY <1>1, <1>2, <2>1
  <1>3. ASSUME pc \in {"refusing", "gating", "executing"}, NEW w, NEW q
        PROVE  Ordered(Pending(mem, w, q).entries)
    <2>1. Pending(mem, w, q) = suspended(Recorded(NoArgs), w, q)
      BY DEF Pending, Recorded
    <2>2. Recorded(NoArgs) \in Conversation /\ Ordered(Recorded(NoArgs).entries)
      BY <1>1, <1>3
    <2>3. suspended(Recorded(NoArgs), w, q).entries = Recorded(NoArgs).entries
      BY <2>2 DEF suspended, Conversation
    <2> QED  BY <2>1, <2>2, <2>3
  <1>4. CASE WriteIntent
    <2> DEFINE r == IntentRow(Head(turn.calls), Len(mem.entries) + 1)
               m == appendEntry(mem, r)
    <2>1. mem' = m \/ mem' = conv
      BY <1>4 DEF WriteIntent, Write, Return
    <2>2. turn.calls \in Seq(Call) /\ turn.calls # <<>>
      BY <1>4 DEF WriteIntent, Inv, TypeOK
    <2>3. Head(turn.calls) \in Call
      BY <2>2
    <2>4. r \in Entry /\ r.kind = "intent" /\ r.key = Len(mem.entries) + 1
      BY <1>0, <2>3, RowTypes
    <2>6. Unresolved(mem.entries) = {}
      BY <1>4 DEF WriteIntent, Inv, Ctl
    <2> HIDE DEF r
    <2>7. Ordered(Append(mem.entries, r))
      BY <2>4, <2>6, OrderedConv, OrderedIntent
    <2>8. m.entries = Append(mem.entries, r)
      BY <1>0 DEF appendEntry, Conversation
    <2>5. Ordered(m.entries)
      BY <2>7, <2>8
    <2> HIDE DEF m
    <2> QED  BY <2>1, <2>5, OrderedConv
  <1>5. CASE RefuseUnresolved \/ ExecuteRead
    BY <1>2, <1>5 DEF RefuseUnresolved, ExecuteRead
  <1>6. CASE gateOnApproval
    <2> DEFINE q == mem.entries[LastRequest(mem.entries, Current.args)].q
    <2>1. pc = "gating"
      BY <1>6 DEF gateOnApproval
    <2>2. mem' = mem \/ Record(NoArgs) \/ WriteAndReturn(Pending(mem, "user", q))
      BY <1>6 DEF gateOnApproval
    <2> HIDE DEF q
    <2>3. Ordered(Pending(mem, "user", q).entries)
      BY <1>3, <2>1
    <2> QED  BY <1>2, <2>1, <2>2, <2>3, OrderedReturn
  <1>7. CASE ExecutePost
    <2>1. pc = "executing" /\ Current.op = "post" /\ (Record(Current.args) \/ Record(NoArgs))
      BY <1>7 DEF ExecutePost
    <2>2. Current.args \in Args
      BY <2>1, InHandFacts
    <2> QED  BY <1>2, <2>1, <2>2
  <1>8. CASE ExecuteQuestion
    <2> DEFINE q == CallKey(CurrentKey)
               w == IF Current.op = "ask" THEN "user" ELSE "tool"
    <2>1. pc = "executing"
      BY <1>8 DEF ExecuteQuestion
    <2>2. mem' = Pending(mem, w, q) \/ Record(NoArgs)
      BY <1>8 DEF ExecuteQuestion, RaiseThenWrite
    <2> HIDE DEF q, w
    <2> QED  BY <1>2, <1>3, <2>1, <2>2
  <1>9. CASE EndTurn
    <2> DEFINE x == [mem EXCEPT !.lease = "none", !.status = "running"]
    <2>1. WriteAndReturn(x)
      BY <1>9 DEF EndTurn
    <2>2. x.entries = mem.entries
      BY <1>0 DEF Conversation
    <2> HIDE DEF x
    <2> QED  BY <2>1, <2>2, OrderedReturn
  <1>10. CASE raiseApproval
    BY <1>10, RaiseOrdered
  <1> QED  BY <1>4, <1>5, <1>6, <1>7, <1>8, <1>9, <1>10 DEF Calls

\* Every step keeps the transcript ordered.
LEMMA NextOrdered ==
    ASSUME Inv, Ordered(mem.entries), [Next]_vars
    PROVE  Ordered(mem'.entries)
  <1>1. CASE WriteBack
    <2>1. mem' = mem \/ mem' = conv
      BY <1>1 DEF WriteBack, WriteAndReturn, Return
    <2> QED  BY <2>1, OrderedConv
  <1>2. CASE User \/ UNCHANGED vars
    <2>1. mem' = mem
      BY <1>2 DEF User, UserDeletes, UserAnswers, UserSwitches, UserSetsAssistant, vars
    <2> QED  BY <2>1
  <1>3. CASE Crash \/ LeaseExpires
    <2>1. mem'.entries = conv.entries
      BY <1>3, LoggedConv DEF Crash, LeaseExpires, Return, Conversation
    <2> QED  BY <2>1, OrderedConv
  <1> QED
    BY <1>1, <1>2, <1>3, ScanOrdered, GuardsOrdered, ReconcileOrdered, LlmOrdered, CallsOrdered
    DEF Next, Runtime

\* The first result of the tool after a call, before its next call, is the call's own.
LEMMA OwnIsOwn ==
    ASSUME NEW e \in Seq(Entry), RowsOK(e), Paired(e), NEW i \in Positions(e, "intent"),
           NEW j \in ownResult(e, i)
    PROVE  e[j].key = i
  <1> DEFINE k == e[j].key
  <1>1. i \in 1..Len(e) /\ e[i].kind = "intent" /\ j \in (i + 1)..Len(e) /\ Len(e) \in Nat
        /\ e[j].kind = "result" /\ e[j].op = e[i].op
        /\ \A x \in (i + 1)..j : ~(e[x].kind = "intent" /\ e[x].op = e[i].op)
    BY DEF ownResult, Positions
  <1>2. j \in Positions(e, "result")
    BY <1>1 DEF Positions
  <1>3. k \in 1..(j - 1) /\ e[k].kind = "intent" /\ e[k].op = e[j].op
        /\ \A x \in (k + 1)..j : e[x].kind # "intent"
    BY <1>2 DEF Paired, PairAt, Speaks
  <1> HIDE DEF k
  <1>4. ~(k > i)
    <2>1. k > i => k \in (i + 1)..j
      BY <1>1, <1>3
    <2> QED  BY <1>1, <1>3, <2>1
  <1>5. ~(k < i)
    <2>1. k < i => i \in (k + 1)..j
      BY <1>1, <1>3
    <2> QED  BY <1>1, <1>3, <2>1
  <1>6. k = i
    BY <1>1, <1>3, <1>4, <1>5
  <1> QED  BY <1>6 DEF k

\* What is first in a set of rows is in it.
LEMMA FirstIn ==
    ASSUME NEW S, S \subseteq Nat, First(S) # 0
    PROVE  First(S) \in S
  <1>1. S # {}
    BY DEF First
  <1>2. \E x \in S : \A y \in S : x <= y
    BY <1>1, LeastExists
  <1> QED  BY <1>1, <1>2 DEF First

\* The client's pairing of an ordered transcript.
LEMMA OrderedReceipts ==
    ASSUME Inv, Ordered(conv.entries)
    PROVE  ReceiptIsOwn
  <1> DEFINE e == conv.entries
             calls == {i \in Positions(e, "intent") : e[i].op # "ask"}
             paired == {[intent |-> i, result |-> First(ownResult(e, i))] : i \in calls}
             claimed == {r.result : r \in paired}
             rest == {[intent |-> 0, result |-> j] : j \in Positions(e, "result") \ claimed}
  <1>1. e \in Seq(Entry) /\ mem.entries \in Seq(Entry)
    BY LoggedConv
  <1>2. RowsOK(e)
    <2>1. Prefix(e, mem.entries) /\ RowsOK(mem.entries)
      BY DEF Inv, Ctl
    <2> QED  BY <1>1, <2>1, PrefixRowsOK
  <1>3. Paired(e)
    BY DEF Ordered
  <1>4. pairIntoReceipts(e) = paired \cup rest
    BY DEF pairIntoReceipts
  <1> HIDE DEF e
  <1>5. \A i \in Positions(e, "intent") : e[i].key = i
    BY <1>2 DEF RowsOK, RowOK, Positions
  <1>6. ASSUME NEW i \in Positions(e, "intent")  PROVE ownResult(e, i) \subseteq Nat
    BY <1>1 DEF ownResult, Positions
  <1>7. ASSUME NEW r \in paired \cup rest, r.intent # 0, r.result # 0
        PROVE  e[r.intent].key = e[r.result].key
    <2>1. PICK i \in calls : r = [intent |-> i, result |-> First(ownResult(e, i))]
      BY <1>7
    <2>2. i \in Positions(e, "intent") /\ r.intent = i /\ r.result = First(ownResult(e, i))
      BY <2>1
    <2>3. r.result \in ownResult(e, i)
      BY <1>6, <1>7, <2>2, FirstIn
    <2> QED  BY <1>1, <1>2, <1>3, <1>5, <2>2, <2>3, OwnIsOwn
  <1>8. ASSUME NEW j \in Positions(e, "result"), e[j].op # "ask"
        PROVE  \E r \in paired \cup rest : r.result = j /\ r.intent # 0
    <2> DEFINE k == e[j].key
               w == [intent |-> k, result |-> First(ownResult(e, k))]
    <2>1. j \in 1..Len(e) /\ e[j].kind = "result" /\ Len(e) \in Nat
      BY <1>1 DEF Positions
    <2>2. /\ k \in 1..(j - 1) /\ e[k].kind = "intent" /\ e[k].op = e[j].op
          /\ \A x \in (k + 1)..j : e[x].kind # "intent"
      BY <1>3, <1>8 DEF Paired, PairAt, Speaks
    <2>3. \A x \in Positions(e, "result") : e[x].key = k => x = j
      BY <1>3, <1>8 DEF Paired
    <2> HIDE DEF k
    <2>4. k \in 1..Len(e) /\ k # 0 /\ j \in (k + 1)..Len(e)
      BY <2>1, <2>2
    <2>5. k \in Positions(e, "intent") /\ k \in calls
      BY <1>8, <2>2, <2>4 DEF Positions
    <2>6. j \in ownResult(e, k)
      BY <2>1, <2>2, <2>4 DEF ownResult
    <2>7. \A x \in ownResult(e, k) : x = j
      <3> SUFFICES ASSUME NEW x \in ownResult(e, k)  PROVE x = j
        OBVIOUS
      <3>1. e[x].key = k
        BY <1>1, <1>2, <1>3, <2>5, OwnIsOwn
      <3>2. x \in Positions(e, "result")
        BY <2>1, <2>4 DEF ownResult, Positions
      <3> QED  BY <2>3, <3>1, <3>2
    <2>8. First(ownResult(e, k)) = j
      <3>0. j \in Nat
        BY <2>1
      <3>1. ownResult(e, k) = {j}
        BY <2>6, <2>7, Zenon
      <3>2. \E x \in {j} : \A y \in {j} : x <= y
        BY <3>0
      <3> QED  BY <3>1, <3>2 DEF First
    <2>9. w \in paired /\ w.result = j /\ w.intent # 0
      BY <2>4, <2>5, <2>8
    <2> QED  BY <2>9
  <1> HIDE DEF paired, rest
  <1>9. /\ \A r \in pairIntoReceipts(e) : r.intent # 0 /\ r.result # 0 => e[r.intent].key = e[r.result].key
        /\ \A j \in Positions(e, "result") : e[j].op # "ask" =>
              \E r \in pairIntoReceipts(e) : r.result = j /\ r.intent # 0
    BY <1>4, <1>7, <1>8
  <1> QED  BY <1>9 DEF ReceiptIsOwn, e

\* A Conversation is born without calls.
LEMMA InitOrdered ==
    ASSUME Init  PROVE Ordered(mem.entries)
  <1>1. mem.entries = <<Row("prompt")>>
    BY DEF Init, Born
  <1>2. Row("prompt").kind = "prompt"
    BY RowTypes
  <1>3. Positions(mem.entries, "result") = {} /\ Positions(mem.entries, "intent") = {}
    <2> HIDE DEF Row
    <2> QED  BY <1>1, <1>2 DEF Positions
  <1> QED  BY <1>3 DEF Ordered, Paired, Latest, Unresolved

\* The client's entries.ts, pairIntoReceipts ("Pair with this call's OWN result"): it matches a
\* call with a result by the tool's name, and for every transcript advance.ts can have written,
\* whatever crashes, recoveries and escalations came between, that is the result of that very
\* call, and no result is left without its Receipt.
THEOREM ReceiptsAreOwn == Spec => []ReceiptIsOwn
  <1>1. Init => Inv /\ Ordered(mem.entries)
    BY InitInv, InitOrdered, ConstantsAssumption
  <1>2. Inv /\ Ordered(mem.entries) /\ [Next]_vars => Inv' /\ Ordered(mem.entries)'
    BY NextInv, NextOrdered, ConstantsAssumption DEF Kept
  <1>3. Inv /\ Ordered(mem.entries) => ReceiptIsOwn
    BY OrderedConv, OrderedReceipts
  <1> QED  BY <1>1, <1>2, <1>3, PTL DEF Spec

-----------------------------------------------------------------------------
(***************************************************************************)
(* The messages the model is sent                                          *)
(***************************************************************************)

\* A block of a vendor's wire shows a row.
Shows(w, r) ==
    /\ w.block = "tool_use" <=> r.kind = "intent"
    /\ w.block = "tool_result" <=> r.kind = "result"
    /\ r.kind \in {"intent", "result"} => w.id = r.key
    /\ r.kind \notin {"intent", "result", "assistant"} => w.role = "user" /\ w.block = "text"

\* A wire follows a transcript: it shows every row that is spoken, once and in order, and text
\* that stands for no row (the system prompt, at 0) only before them.
Follows(wire, e, n, pos) ==
    /\ n \in Nat /\ DOMAIN wire = 1..n /\ pos \in [1..n -> 0..Len(e)]
    /\ \A i, j \in 1..n : i < j => pos[i] < pos[j]
    /\ \A i \in 1..n : pos[i] = 0 => wire[i].block = "text"
    /\ \A i \in 1..n : pos[i] # 0 => Shows(wire[i], e[pos[i]])
    /\ \A k \in 1..Len(e) : spoken(e[k]) => \E i \in 1..n : pos[i] = k

\* Between a call and its result stand rows of the User's only.
LEMMA OnlyUserBetween ==
    ASSUME NEW e \in Seq(Entry), Ordered(e), RowsOK(e), NEW j \in Positions(e, "result"),
           NEW x \in (e[j].key + 1)..(j - 1)
    PROVE  e[x].kind \notin {"intent", "result", "assistant"}
  <1> DEFINE k == e[j].key
  <1>1. /\ Len(e) \in Nat /\ j \in 1..Len(e) /\ k \in 1..(j - 1) /\ e[k].kind = "intent"
        /\ \A i \in (k + 1)..j : ~Speaks(e[i])
        /\ \A i \in Positions(e, "result") : e[i].key = k => i = j
    BY DEF Ordered, Paired, PairAt, Positions
  <1> HIDE DEF k
  <1>2. x \in Nat /\ k < x /\ x < j /\ x \in 1..Len(e) /\ x \in (k + 1)..j
    BY <1>1 DEF k
  <1>3. e[x].kind \notin {"intent", "assistant"}
    BY <1>1, <1>2 DEF Speaks
  <1>4. ASSUME e[x].kind = "result"  PROVE FALSE
    <2> DEFINE y == e[x].key
    <2>1. x \in Positions(e, "result")
      BY <1>2, <1>4 DEF Positions
    <2>2. y \in 1..(x - 1) /\ e[y].kind = "intent" /\ \A i \in (y + 1)..x : ~Speaks(e[i])
      BY <2>1 DEF Ordered, Paired, PairAt
    <2> HIDE DEF y
    <2>3. Speaks(e[k]) /\ Speaks(e[y])
      BY <1>1, <2>2 DEF Speaks
    <2>4. ~(y < k)
      <3>1. y < k => k \in (y + 1)..x
        BY <1>1, <1>2, <2>2
      <3> QED  BY <2>2, <2>3, <3>1
    <2>5. ~(k < y)
      <3>1. k < y => y \in (k + 1)..j
        BY <1>1, <1>2, <2>2
      <3> QED  BY <1>1, <2>3, <3>1
    <2>6. y = k
      BY <1>1, <2>2, <2>4, <2>5
    <2>7. x = j
      BY <1>1, <2>1, <2>6 DEF y
    <2> QED  BY <1>2, <2>7
  <1> QED  BY <1>3, <1>4

\* A settled transcript leaves no call without its result, and no result without its call, on
\* any wire that follows it.
AnsweredOn(wire) ==
    /\ \A i \in DOMAIN wire : wire[i].block = "tool_use" =>
         \E j \in DOMAIN wire : Answers(wire, i) = {j} /\ i < j /\ OnlyAsked(wire, i, j)
    /\ \A j \in DOMAIN wire : wire[j].block = "tool_result" =>
         \E i \in DOMAIN wire : wire[i].block = "tool_use" /\ wire[i].id = wire[j].id

LEMMA FollowedIsAnswered ==
    ASSUME NEW e \in Seq(Entry), Ordered(e), RowsOK(e), Unresolved(e) = {},
           NEW wire, NEW n, NEW pos, Follows(wire, e, n, pos)
    PROVE  AnsweredOn(wire)
  <1>1. /\ n \in Nat /\ DOMAIN wire = 1..n /\ Len(e) \in Nat
        /\ \A i \in 1..n : pos[i] \in 0..Len(e) /\ pos[i] \in Nat
    BY DEF Follows
  <1>2. \A i, j \in 1..n : i < j => pos[i] < pos[j]
    BY DEF Follows
  <1>3. \A i \in 1..n : pos[i] = 0 => wire[i].block = "text"
    BY DEF Follows
  <1>4. \A i \in 1..n : pos[i] # 0 => Shows(wire[i], e[pos[i]])
    BY DEF Follows
  <1>5. \A k \in 1..Len(e) : spoken(e[k]) => \E i \in 1..n : pos[i] = k
    BY DEF Follows
  <1>6. \A i, j \in 1..n : (pos[i] = pos[j] => i = j) /\ (pos[i] < pos[j] => i < j)
    <2> SUFFICES ASSUME NEW i \in 1..n, NEW j \in 1..n
                 PROVE  (pos[i] = pos[j] => i = j) /\ (pos[i] < pos[j] => i < j)
      OBVIOUS
    <2>1. i \in Int /\ j \in Int /\ pos[i] \in Int /\ pos[j] \in Int
      BY <1>1
    <2>2. (i < j => pos[i] < pos[j]) /\ (j < i => pos[j] < pos[i])
      BY <1>2
    <2> QED  BY <2>1, <2>2
  <1>7. ASSUME NEW i \in 1..n, wire[i].block = "tool_use"
        PROVE  \E j \in 1..n : Answers(wire, i) = {j} /\ i < j /\ OnlyAsked(wire, i, j)
    <2> DEFINE k == pos[i]
    <2>1. k # 0 /\ k \in 1..Len(e) /\ e[k].kind = "intent" /\ wire[i].id = e[k].key
      BY <1>1, <1>3, <1>4, <1>7 DEF Shows
    <2>2. e[k].key = k
      BY <2>1 DEF RowsOK, RowOK
    <2>3. PICK j0 \in Positions(e, "result") : e[j0].key = k
      BY <2>1, <2>2 DEF Unresolved, Resolved, Positions
    <2> HIDE DEF k
    <2>4. j0 \in 1..Len(e) /\ e[j0].kind = "result" /\ k \in 1..(j0 - 1)
          /\ \A x \in Positions(e, "result") : e[x].key = k => x = j0
      BY <2>3 DEF Ordered, Paired, PairAt, Positions
    <2>5. PICK j \in 1..n : pos[j] = j0
      BY <1>5, <2>4 DEF spoken
    <2>6. j0 # 0 /\ k < j0 /\ j0 \in Nat /\ k \in Nat
      BY <2>1, <2>4
    <2>7. wire[j].block = "tool_result" /\ wire[j].id = k
      BY <1>4, <2>3, <2>4, <2>5, <2>6 DEF Shows
    <2>8. i < j
      BY <1>6, <2>5, <2>6 DEF k
    <2>9. ASSUME NEW w \in 1..n, wire[w].block = "tool_result", wire[w].id = k  PROVE w = j
      <3>1. pos[w] # 0
        BY <1>3, <2>9
      <3>2. Shows(wire[w], e[pos[w]]) /\ pos[w] \in 1..Len(e)
        BY <1>1, <1>4, <3>1
      <3>3. e[pos[w]].kind = "result" /\ e[pos[w]].key = k
        BY <2>9, <3>2 DEF Shows
      <3>4. pos[w] \in Positions(e, "result")
        BY <3>2, <3>3 DEF Positions
      <3>5. pos[w] = pos[j]
        BY <2>4, <2>5, <3>3, <3>4
      <3> QED  BY <1>6, <3>5
    <2>10. Answers(wire, i) = {j}
      <3>1. wire[i].id = k
        BY <2>1, <2>2
      <3> QED  BY <1>1, <2>7, <2>9, <3>1 DEF Answers
    <2>11. ASSUME NEW w \in (i + 1)..(j - 1)  PROVE wire[w].role = "user" /\ wire[w].block = "text"
      <3>1. w \in 1..n /\ i < w /\ w < j
        BY <1>1
      <3>2. k < pos[w] /\ pos[w] < j0
        BY <1>2, <2>5, <3>1 DEF k
      <3>3. pos[w] \in (k + 1)..(j0 - 1) /\ pos[w] # 0
        BY <1>1, <2>6, <3>1, <3>2
      <3>4. e[pos[w]].kind \notin {"intent", "result", "assistant"}
        BY <2>3, <3>3, OnlyUserBetween
      <3> QED  BY <1>4, <3>1, <3>3, <3>4 DEF Shows
    <2> QED  BY <2>8, <2>10, <2>11 DEF OnlyAsked
  <1>8. ASSUME NEW j \in 1..n, wire[j].block = "tool_result"
        PROVE  \E i \in 1..n : wire[i].block = "tool_use" /\ wire[i].id = wire[j].id
    <2>1. pos[j] # 0 /\ pos[j] \in 1..Len(e) /\ e[pos[j]].kind = "result" /\ wire[j].id = e[pos[j]].key
      BY <1>1, <1>3, <1>4, <1>8 DEF Shows
    <2> DEFINE k == e[pos[j]].key
    <2>2. pos[j] \in Positions(e, "result")
      BY <2>1 DEF Positions
    <2>3. k \in 1..(pos[j] - 1) /\ e[k].kind = "intent"
      BY <2>2 DEF Ordered, Paired, PairAt
    <2> HIDE DEF k
    <2>4. k \in 1..Len(e) /\ k # 0
      BY <1>1, <2>1, <2>3
    <2>5. PICK i \in 1..n : pos[i] = k
      BY <1>5, <2>3, <2>4 DEF spoken
    <2>6. wire[i].block = "tool_use" /\ wire[i].id = e[k].key
      BY <1>4, <2>3, <2>4, <2>5 DEF Shows
    <2>7. e[k].key = k
      BY <2>3, <2>4 DEF RowsOK, RowOK
    <2> QED  BY <2>1, <2>6, <2>7 DEF k
  <1> QED  BY <1>1, <1>7, <1>8 DEF AnsweredOn

\* The rows a message is made of.
SpokenRows(e) == {k \in DOMAIN e : spoken(e[k])}

\* buildMessages: the system prompt, and then a message for each of them.
LEMMA MessagesAreRows ==
    ASSUME NEW e \in Seq(Entry)
    PROVE  \E n, pos :
              /\ Enumerates(pos, n, SpokenRows(e))
              /\ DOMAIN buildMessages(e) = 1..(n + 1)
              /\ buildMessages(e)[1] = Message("system", 0)
              /\ \A i \in 1..n : buildMessages(e)[i + 1] = messageOf(e[pos[i]])
  <1> DEFINE P == SpokenRows(e)
             S == [role : {"system", "assistant", "tool_calls", "tool", "user"}, id : Nat]
  <1>1. Len(e) \in Nat /\ DOMAIN e = 1..Len(e)
    OBVIOUS
  <1>2. IsFiniteSet(1..Len(e)) /\ P \subseteq 1..Len(e)
    BY <1>1, FS_Interval DEF SpokenRows
  <1>3. IsFiniteSet(P) /\ P \subseteq Int
    BY <1>2, FS_Subset
  <1> HIDE DEF P
  <1>3a. PICK n, pos : Picks(pos, n, e, P)
    BY <1>3, Picked
  <1>4. Enumerates(pos, n, P) /\ Pick(e, P) = [i \in 1..n |-> e[pos[i]]]
    BY <1>3a DEF Picks
  <1>5. n \in Nat /\ \A i \in 1..n : pos[i] \in P
    BY <1>4 DEF Enumerates
  <1>6. \A r \in Entry : messageOf(r) \in S
    BY DEF messageOf, Message, Entry
  <1>7. Message("system", 0) \in S
    BY DEF Message
  <1> HIDE DEF S
  <1> DEFINE ms == [i \in 1..n |-> messageOf(e[pos[i]])]
  <1>8. \A i \in 1..n : e[pos[i]] \in Entry
    <2>1. \A k \in 1..Len(e) : e[k] \in Entry
      BY <1>1
    <2>2. \A i \in 1..n : pos[i] \in 1..Len(e)
      BY <1>2, <1>5
    <2> QED  BY <2>1, <2>2
  <1>9. ms \in Seq(S) /\ Len(ms) = n
    <2>1. ms \in [1..n -> S]
      BY <1>6, <1>8
    <2> HIDE DEF ms
    <2> QED  BY <1>5, <2>1
  <1>10. buildMessages(e) = <<Message("system", 0)>> \o ms
    BY <1>4, <1>5 DEF buildMessages, P, SpokenRows
  <1>11. \A i \in 1..n : ms[i] = messageOf(e[pos[i]])
    OBVIOUS
  <1> HIDE DEF ms
  <1>12. ASSUME NEW m \in S
         PROVE  /\ DOMAIN (<<m>> \o ms) = 1..(n + 1)
                /\ (<<m>> \o ms)[1] = m
                /\ \A i \in 1..n : (<<m>> \o ms)[i + 1] = ms[i]
    BY <1>5, <1>9
  <1> DEFINE m == Message("system", 0)
  <1>13. /\ DOMAIN buildMessages(e) = 1..(n + 1)
         /\ buildMessages(e)[1] = m
         /\ \A i \in 1..n : buildMessages(e)[i + 1] = messageOf(e[pos[i]])
    <2> HIDE DEF m
    <2>1. m \in S /\ buildMessages(e) = <<m>> \o ms
      BY <1>7, <1>10 DEF m
    <2>2. /\ DOMAIN (<<m>> \o ms) = 1..(n + 1)
          /\ (<<m>> \o ms)[1] = m
          /\ \A i \in 1..n : (<<m>> \o ms)[i + 1] = ms[i]
      BY <1>12, <2>1
    <2> QED  BY <1>11, <2>1, <2>2
  <1> QED  BY <1>4, <1>13 DEF P

\* What each vendor makes of a row's message.
LEMMA BlockShows ==
    ASSUME NEW r \in Entry, NEW m, m = messageOf(r)
    PROVE  /\ m.role # "system"
           /\ Shows(CASE m.role = "tool" -> [role |-> "user", block |-> "tool_result", id |-> m.id]
                      [] m.role = "tool_calls" -> [role |-> "assistant", block |-> "tool_use", id |-> m.id]
                      [] OTHER -> [role |-> m.role, block |-> "text", id |-> 0], r)
           /\ Shows(CASE m.role = "tool" -> [role |-> "tool", block |-> "tool_result", id |-> m.id]
                      [] m.role = "tool_calls" -> [role |-> "assistant", block |-> "tool_use", id |-> m.id]
                      [] OTHER -> [role |-> m.role, block |-> "text", id |-> 0], r)
  <1>1. CASE r.kind = "intent"
    <2>1. m = Message("tool_calls", r.key)
      BY <1>1 DEF messageOf
    <2>2. m.role = "tool_calls" /\ m.id = r.key
      BY <2>1 DEF Message
    <2> QED  BY <1>1, <2>2 DEF Shows
  <1>2. CASE r.kind = "result"
    <2>1. m = Message("tool", r.key)
      BY <1>2 DEF messageOf
    <2>2. m.role = "tool" /\ m.id = r.key
      BY <2>1 DEF Message
    <2> QED  BY <1>2, <2>2 DEF Shows
  <1>3. CASE r.kind = "assistant"
    <2>1. m = Message("assistant", 0)
      BY <1>3 DEF messageOf
    <2>2. m.role = "assistant"
      BY <2>1 DEF Message
    <2> QED  BY <1>3, <2>2 DEF Shows
  <1>4. CASE r.kind \notin {"intent", "result", "assistant"}
    <2>1. m = Message("user", 0)
      BY <1>4 DEF messageOf
    <2>2. m.role = "user"
      BY <2>1 DEF Message
    <2> QED  BY <1>4, <2>2 DEF Shows
  <1> QED  BY <1>1, <1>2, <1>3, <1>4

\* openaiMessages keeps the system prompt in its place.
LEMMA OpenaiFollows ==
    ASSUME NEW e \in Seq(Entry)
    PROVE  \E n, pos : Follows(openaiMessages(buildMessages(e)), e, n, pos)
  <1> DEFINE M == buildMessages(e)
             wire == openaiMessages(M)
  <1>1. PICK c, at : /\ Enumerates(at, c, SpokenRows(e))
                     /\ DOMAIN M = 1..(c + 1)
                     /\ M[1] = Message("system", 0)
                     /\ \A i \in 1..c : M[i + 1] = messageOf(e[at[i]])
    BY MessagesAreRows
  <1>2. /\ c \in Nat /\ Len(e) \in Nat
        /\ \A i \in 1..c : at[i] \in 1..Len(e) /\ at[i] \in Nat
        /\ \A i, j \in 1..c : i < j => at[i] < at[j]
        /\ \A k \in 1..Len(e) : spoken(e[k]) => \E i \in 1..c : at[i] = k
    BY <1>1 DEF Enumerates, SpokenRows
  <1> HIDE DEF M
  <1> DEFINE n == c + 1
             pos == [i \in 1..n |-> IF i = 1 THEN 0 ELSE at[i - 1]]
  <1>3. DOMAIN wire = 1..n
    BY <1>1 DEF openaiMessages
  <1>4. \A i \in 1..n : i # 1 => i - 1 \in 1..c /\ i = (i - 1) + 1
    BY <1>2
  <1>5. pos[1] = 0 /\ \A i \in 1..n : i # 1 => pos[i] = at[i - 1] /\ pos[i] \in 1..Len(e) /\ pos[i] # 0
    BY <1>2, <1>4
  <1>6. pos \in [1..n -> 0..Len(e)]
    BY <1>2, <1>4
  <1>7. \A i \in 1..n : wire[i] =
          CASE M[i].role = "tool" -> [role |-> "tool", block |-> "tool_result", id |-> M[i].id]
            [] M[i].role = "tool_calls" -> [role |-> "assistant", block |-> "tool_use", id |-> M[i].id]
            [] OTHER -> [role |-> M[i].role, block |-> "text", id |-> 0]
    BY <1>1 DEF openaiMessages
  <1> HIDE DEF pos, wire
  <1>8. ASSUME NEW i \in 1..n, NEW j \in 1..n, i < j  PROVE pos[i] < pos[j]
    <2>1. j # 1 /\ pos[j] = at[j - 1] /\ j - 1 \in 1..c /\ at[j - 1] \in Nat /\ at[j - 1] # 0
      BY <1>2, <1>4, <1>5, <1>8
    <2>2. CASE i = 1
      BY <1>5, <2>1, <2>2
    <2>3. CASE i # 1
      <3>1. pos[i] = at[i - 1] /\ i - 1 \in 1..c /\ i - 1 < j - 1
        BY <1>4, <1>5, <1>8, <2>3
      <3> QED  BY <1>2, <2>1, <3>1
    <2> QED  BY <2>2, <2>3
  <1>9. ASSUME NEW i \in 1..n, pos[i] = 0  PROVE wire[i].block = "text"
    <2>1. i = 1
      BY <1>5, <1>9
    <2>2. M[i].role = "system"
      BY <1>1, <2>1 DEF Message
    <2>3. wire[i] = [role |-> M[i].role, block |-> "text", id |-> 0]
      BY <1>7, <2>2
    <2> QED  BY <2>3
  <1>10. ASSUME NEW i \in 1..n, pos[i] # 0  PROVE Shows(wire[i], e[pos[i]])
    <2>1. i # 1
      BY <1>5, <1>10
    <2>2. i - 1 \in 1..c /\ i = (i - 1) + 1 /\ pos[i] = at[i - 1] /\ pos[i] \in 1..Len(e)
      BY <1>4, <1>5, <2>1
    <2>3. M[i] = messageOf(e[pos[i]])
      BY <1>1, <2>2
    <2>4. e[pos[i]] \in Entry
      BY <2>2
    <2> QED  BY <1>7, <2>3, <2>4, BlockShows
  <1>11. ASSUME NEW k \in 1..Len(e), spoken(e[k])  PROVE \E i \in 1..n : pos[i] = k
    <2>1. PICK i \in 1..c : at[i] = k
      BY <1>2, <1>11
    <2>2. i + 1 \in 1..n /\ i + 1 # 1 /\ (i + 1) - 1 = i
      BY <1>2
    <2>3. pos[i + 1] = k
      BY <1>5, <2>1, <2>2
    <2> QED  BY <2>2, <2>3
  <1>12. n \in Nat
    BY <1>2
  <1> HIDE DEF n
  <1>13. Follows(wire, e, n, pos)
    BY <1>3, <1>6, <1>8, <1>9, <1>10, <1>11, <1>12 DEF Follows
  <1> QED  BY <1>13 DEF wire, M

\* anthropicMessages leaves it out.
LEMMA AnthropicFollows ==
    ASSUME NEW e \in Seq(Entry)
    PROVE  \E n, pos : Follows(anthropicMessages(buildMessages(e)), e, n, pos)
  <1> DEFINE M == buildMessages(e)
             Q == {i \in DOMAIN M : M[i].role # "system"}
             wire == anthropicMessages(M)
  <1>1. PICK c, at : /\ Enumerates(at, c, SpokenRows(e))
                     /\ DOMAIN M = 1..(c + 1)
                     /\ M[1] = Message("system", 0)
                     /\ \A i \in 1..c : M[i + 1] = messageOf(e[at[i]])
    BY MessagesAreRows
  <1>2. /\ c \in Nat /\ Len(e) \in Nat
        /\ \A i \in 1..c : at[i] \in 1..Len(e) /\ at[i] \in Nat
        /\ \A i, j \in 1..c : i < j => at[i] < at[j]
        /\ \A k \in 1..Len(e) : spoken(e[k]) => \E i \in 1..c : at[i] = k
    BY <1>1 DEF Enumerates, SpokenRows
  <1> HIDE DEF M
  <1>3. \A i \in 1..c : i + 1 \in Q
    <2> SUFFICES ASSUME NEW i \in 1..c  PROVE i + 1 \in Q
      OBVIOUS
    <2>1. e[at[i]] \in Entry /\ M[i + 1] = messageOf(e[at[i]]) /\ i + 1 \in 1..(c + 1)
      BY <1>1, <1>2
    <2>2. M[i + 1].role # "system"
      BY <2>1, BlockShows
    <2> QED  BY <1>1, <2>1, <2>2
  <1>4. \A i \in Q : i \in Int /\ i - 1 \in 1..c /\ M[i] = messageOf(e[at[i - 1]])
    <2> SUFFICES ASSUME NEW i \in Q  PROVE i \in Int /\ i - 1 \in 1..c /\ M[i] = messageOf(e[at[i - 1]])
      OBVIOUS
    <2>1. i \in 1..(c + 1)
      BY <1>1
    <2>2. i # 1
      <3>1. M[1].role = "system"
        BY <1>1 DEF Message
      <3> QED  BY <3>1
    <2>3. i - 1 \in 1..c /\ (i - 1) + 1 = i
      BY <1>2, <2>1, <2>2
    <2>4. M[(i - 1) + 1] = messageOf(e[at[i - 1]])
      BY <1>1, <2>3
    <2> QED  BY <2>1, <2>3, <2>4
  <1>5. IsFiniteSet(Q) /\ Q \subseteq Int
    <2>1. IsFiniteSet(1..(c + 1)) /\ Q \subseteq 1..(c + 1)
      BY <1>1, <1>2, FS_Interval
    <2> HIDE DEF Q
    <2>2. IsFiniteSet(Q)
      BY <2>1, FS_Subset
    <2> QED  BY <1>2, <2>1, <2>2
  <1>6. wire = LET rest == Pick(M, Q) IN  [i \in DOMAIN rest |->
           CASE rest[i].role = "tool" -> [role |-> "user", block |-> "tool_result", id |-> rest[i].id]
             [] rest[i].role = "tool_calls" -> [role |-> "assistant", block |-> "tool_use", id |-> rest[i].id]
             [] OTHER -> [role |-> rest[i].role, block |-> "text", id |-> 0]]
    BY DEF anthropicMessages
  <1> HIDE DEF Q
  <1>6a. PICK n, from : Picks(from, n, M, Q)
    BY <1>5, Picked
  <1>7. Enumerates(from, n, Q) /\ Pick(M, Q) = [i \in 1..n |-> M[from[i]]]
    BY <1>6a DEF Picks
  <1>8. /\ n \in Nat
        /\ \A i \in 1..n : from[i] \in Q
        /\ \A i, j \in 1..n : i < j => from[i] < from[j]
        /\ \A x \in Q : \E i \in 1..n : from[i] = x
    BY <1>7 DEF Enumerates
  <1> DEFINE pos == [i \in 1..n |-> at[from[i] - 1]]
  <1>9. /\ DOMAIN wire = 1..n
        /\ \A i \in 1..n : wire[i] =
             CASE M[from[i]].role = "tool" -> [role |-> "user", block |-> "tool_result", id |-> M[from[i]].id]
               [] M[from[i]].role = "tool_calls" -> [role |-> "assistant", block |-> "tool_use", id |-> M[from[i]].id]
               [] OTHER -> [role |-> M[from[i]].role, block |-> "text", id |-> 0]
    BY <1>6, <1>7
  <1> HIDE DEF wire
  <1>10. \A i \in 1..n : pos[i] = at[from[i] - 1] /\ pos[i] \in 1..Len(e) /\ pos[i] # 0
    BY <1>2, <1>4, <1>8
  <1>11. pos \in [1..n -> 0..Len(e)]
    <2>1. \A i \in 1..n : at[from[i] - 1] \in 0..Len(e)
      BY <1>2, <1>4, <1>8
    <2> QED  BY <2>1
  <1> HIDE DEF pos
  <1>12. ASSUME NEW i \in 1..n, NEW j \in 1..n, i < j  PROVE pos[i] < pos[j]
    <2>1. from[i] < from[j] /\ from[i] \in Int /\ from[j] \in Int /\ from[i] - 1 \in 1..c /\ from[j] - 1 \in 1..c
      BY <1>4, <1>8, <1>12
    <2>2. from[i] - 1 < from[j] - 1
      BY <2>1
    <2>3. at[from[i] - 1] < at[from[j] - 1]
      BY <1>2, <2>1, <2>2
    <2> QED  BY <1>10, <2>3
  <1>13. ASSUME NEW i \in 1..n  PROVE Shows(wire[i], e[pos[i]])
    <2>1. M[from[i]] = messageOf(e[pos[i]]) /\ e[pos[i]] \in Entry
      BY <1>4, <1>8, <1>10
    <2> QED  BY <1>9, <2>1, BlockShows
  <1>14. ASSUME NEW k \in 1..Len(e), spoken(e[k])  PROVE \E i \in 1..n : pos[i] = k
    <2>1. PICK x \in 1..c : at[x] = k
      BY <1>2, <1>14
    <2>2. PICK i \in 1..n : from[i] = x + 1
      BY <1>3, <1>8
    <2>3. from[i] - 1 = x
      BY <2>2
    <2> QED  BY <1>10, <2>1, <2>3
  <1>15. Follows(wire, e, n, pos)
    BY <1>8, <1>9, <1>10, <1>11, <1>12, <1>13, <1>14 DEF Follows
  <1> QED  BY <1>15 DEF wire, M

\* advance.ts: "a tool call with no tool result is rejected outright by both".  Whenever the model
\* is about to be called, every call in what either vendor is sent has exactly one result, after it,
\* with nothing between but what the User was asked and said, and no result is without its call:
\* whatever crashed, was switched off, deleted or recovered on the way.
THEOREM NoCallUnanswered == Spec => []CallsAreAnswered
  <1>1. Init => Inv /\ Ordered(mem.entries)
    BY InitInv, InitOrdered, ConstantsAssumption
  <1>2. Inv /\ Ordered(mem.entries) /\ [Next]_vars => Inv' /\ Ordered(mem.entries)'
    BY NextInv, NextOrdered, ConstantsAssumption DEF Kept
  <1>3. Inv /\ Ordered(mem.entries) => CallsAreAnswered
    <2> SUFFICES ASSUME Inv, Ordered(mem.entries), pc = "thinking"
                 PROVE  \A wire \in {anthropicMessages(buildMessages(mem.entries)),
                                     openaiMessages(buildMessages(mem.entries))} : AnsweredOn(wire)
      BY DEF CallsAreAnswered, AnsweredOn
    <2>1. mem.entries \in Seq(Entry) /\ RowsOK(mem.entries)
      BY OrderedConv
    <2>2. Unresolved(mem.entries) = {}
      BY DEF Inv, Ctl
    <2>3. ASSUME NEW wire, \E n, pos : Follows(wire, mem.entries, n, pos)  PROVE AnsweredOn(wire)
      BY <2>1, <2>2, <2>3, FollowedIsAnswered
    <2> QED  BY <2>1, <2>3, AnthropicFollows, OpenaiFollows
  <1> QED  BY <1>1, <1>2, <1>3, PTL DEF Spec
=============================================================================
