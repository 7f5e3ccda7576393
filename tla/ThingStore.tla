----------------------------- MODULE ThingStore -----------------------------
(***************************************************************************)
(* The Thing repository (runtime/src/a12) and the programs that write      *)
(* through it.  The store assigns a docRef, replaces whole documents, has  *)
(* no unique key and no compare-and-swap.  create therefore looks for its  *)
(* key before it inserts and looks again afterwards, and update reads the  *)
(* raw document and writes it back with the fields it was given.           *)
(*                                                                         *)
(* A program is a sequence of goals.  A goal looks a Thing up by its key   *)
(* and creates it, writes to it, or leaves it alone.  One step is one      *)
(* request to the store, and anything may happen between two of them.      *)
(*                                                                         *)
(* The fields of a Thing are told apart by who decides on them: machine    *)
(* (what code derives: an Operation's mirror, an Assistant's definition, a *)
(* Document's classification, the watermark), human (what the User         *)
(* decides: an Operation's switch, a transcription, the kill switch),      *)
(* rows (a repeating group) and file (what the map of fields leaves out).  *)
(* A key is <<what the Thing is, the call that made it>>.                  *)
(***************************************************************************)
EXTENDS Naturals, Sequences, FiniteSets

CONSTANTS Refs,        \* docRefs, numbered in the order the store gives them
          Faults       \* subset of {"lost", "failed", "crash", "gap"}

ASSUME StoreAssumption == Refs \subseteq Nat

VARIABLES docs,        \* the stored Things
          proc         \* the programs that are running

Nobody == [there |-> FALSE, model |-> "none", key |-> <<"none", 0>>, machine |-> "none", human |-> "none",
           rows |-> {}, file |-> FALSE]

NoWrite == [f \in {} |-> "none"]

\* pc: where the goal at the head of todo is; was: what isPaused answered.
Ended == [todo |-> <<>>, pc |-> "find", ref |-> 0, raw |-> Nobody, write |-> NoWrite, was |-> "none"]

Holding(key) == {r \in Refs : docs[r].there /\ docs[r].key = key}

----------------------------------------------------------------------------
(* What a goal makes of the Thing it has found. *)

\* A supplied row replaces the row of its number; a row that is not mentioned is kept.
mergeRows(before, incoming) ==
    {row \in before : \A new \in incoming : new.seq # row.seq} \cup incoming

\* The fields of each Model that the map knows.
SPECS == [Operation |-> {"machine", "human"}, Assistant |-> {"machine", "human", "rows"},
          RuntimeState |-> {"machine", "human"}, Document |-> {"machine", "human"},
          Party |-> {"machine"}, Invoice |-> {"machine"}, OpenQuestion |-> {"machine", "human"},
          Process |-> {"machine", "rows"}]

\* What the map makes of a document.
fromDocument(doc) == [f \in SPECS[doc.model] |-> doc[f]]

\* A reader refuses a Document that has text, unless it was told to replace it.
documentToRead(doc, goal) == doc.human = "none" \/ goal.replace

Reads(goal) == goal.do \in {"extract", "scan"}

\* bootstrap re-applies what the code knows and never a decision.
mirror(goal) == [machine |-> "new"]

\* The fields a goal writes to the Thing it has found; none if it leaves it alone.
Writes(goal, doc, was) ==
    CASE goal.do \in {"create", "isPaused"} -> NoWrite
      [] goal.do = "seed" /\ goal.model = "Operation" -> IF doc.machine # "new" THEN mirror(goal) ELSE NoWrite
      [] goal.do = "seed" /\ goal.model = "Assistant" -> [machine |-> "new"]
      [] goal.do = "seed" /\ goal.model = "RuntimeState" -> NoWrite
      [] goal.do = "pause" -> [human |-> "on"]
      [] goal.do = "restore" -> [human |-> was]
      [] goal.do \in {"link", "watermark"} -> [fromDocument(doc) EXCEPT !.machine = "new"]
      [] goal.do = "merge" -> [rows |-> mergeRows(doc.rows, goal.new.rows)]
      [] Reads(goal) -> IF documentToRead(doc, goal) /\ doc.file THEN [human |-> "read"] ELSE NoWrite
      [] goal.do = "look" -> NoWrite

\* Goals that create what they do not find; the others report an error.
Creates(goal) == goal.do \in {"create", "seed"}

----------------------------------------------------------------------------
(* The repository: one step per request of A12Client. *)

Goal(p) == Head(proc[p].todo)

At(p, pc) == proc[p].todo # <<>> /\ proc[p].pc = pc

\* The goal is reached: on to the next one.
Return(self) ==
    IF Len(self.todo) = 1 THEN Ended
    ELSE [Ended EXCEPT !.todo = Tail(self.todo), !.was = self.was]

\* Slip: the demo loader has no finally.
Failed_NoFinally(self) == Ended

\* The program fails: cli.ts exits, a Turn records the error, the demo loader's finally
\* is the one goal that still runs.
Failed(self) ==
    LET pauses == \E i \in DOMAIN self.todo : self.todo[i].do \in {"isPaused", "pause"}
        last == self.todo[Len(self.todo)]
    IN  IF last.do = "restore" /\ Len(self.todo) > 1 /\ ~pauses
        THEN [Ended EXCEPT !.todo = <<last>>, !.was = self.was]
        ELSE Ended

\* findByIdempotencyKey: the first of an unordered answer.
findByIdempotencyKey(p) ==
    /\ At(p, "find") /\ "key" \in DOMAIN Goal(p)
    /\ \E r \in Holding(Goal(p).key) :
         LET write == Writes(Goal(p), docs[r], proc[p].was)
             self == IF Goal(p).do = "isPaused" THEN [proc[p] EXCEPT !.was = docs[r].human] ELSE proc[p]
         IN  proc' = [proc EXCEPT ![p] = IF write = NoWrite THEN Return(self)
                                         ELSE [self EXCEPT !.ref = r, !.write = write,
                                                           !.pc = IF Reads(Goal(p)) THEN "download" ELSE "raw"]]
    /\ UNCHANGED docs

\* Nothing there: a creator inserts, isPaused answers no, any other goal is an error.
findsNothing(p) ==
    /\ At(p, "find") /\ "key" \in DOMAIN Goal(p)
    /\ Holding(Goal(p).key) = {}
    /\ proc' = [proc EXCEPT ![p] = CASE Creates(Goal(p)) -> [@ EXCEPT !.pc = "insert"]
                                     [] Goal(p).do = "isPaused" -> [Return(@) EXCEPT !.was = "off"]
                                     [] OTHER -> Failed(@)]
    /\ UNCHANGED docs

\* addDocument: the store gives the new Thing a docRef it has not given yet.
Insert(p) ==
    /\ At(p, "insert")
    /\ \E r \in Refs : /\ ~docs[r].there /\ \A s \in Refs : s < r => docs[s].there
                       /\ docs' = [docs EXCEPT ![r] = Goal(p).new]

create(p) == Insert(p) /\ proc' = [proc EXCEPT ![p].pc = "check"]

\* Two creators converge on the smaller docRef; a check that fails is not fatal.
converge(p) ==
    /\ At(p, "check")
    /\ proc' = [proc EXCEPT ![p] = Return(@)]
    /\ UNCHANGED docs

----------------------------------------------------------------------------
(* Reading an attachment, between looking at the Document and writing it. *)

\* The bytes of the attachment.
download(p) ==
    /\ At(p, "download")
    /\ proc' = [proc EXCEPT ![p].pc = "layer"]
    /\ UNCHANGED docs

\* The text layer is there, is empty, or the file is no PDF.  A scan goes on while the
\* file has pages and is under both caps; what has no text, or too much, is not written.
readTextLayer(p) ==
    /\ At(p, "layer")
    /\ \/ proc' = [proc EXCEPT ![p].pc = IF Goal(p).do = "scan" THEN "vision" ELSE "raw"]
       \/ proc' = [proc EXCEPT ![p] = Return(@)]
    /\ UNCHANGED docs

\* The vision model reads all pages, or throws.
visionRead(p) ==
    /\ At(p, "vision")
    /\ \/ proc' = [proc EXCEPT ![p].pc = "raw"]
       \/ proc' = [proc EXCEPT ![p] = Failed(@)]
    /\ UNCHANGED docs

----------------------------------------------------------------------------
(* update. *)

\* getDocument, the first half of update.
readRaw(p) ==
    /\ At(p, "raw")
    /\ proc' = [proc EXCEPT ![p].raw = docs[proc[p].ref], ![p].pc = "modify"]
    /\ UNCHANGED docs

\* Slip: the outgoing document is built from the map of fields alone.
toDocument_MapOnly(raw, write) ==
    [f \in DOMAIN raw |-> IF f \in DOMAIN write THEN write[f] ELSE IF f = "file" THEN FALSE ELSE raw[f]]

\* The raw document with the given fields laid over it.
toDocument(raw, write) == [f \in DOMAIN raw |-> IF f \in DOMAIN write THEN write[f] ELSE raw[f]]

\* modifyDocument: the whole document is replaced.
Modify(p) ==
    /\ At(p, "modify")
    /\ docs' = [docs EXCEPT ![proc[p].ref] = toDocument(proc[p].raw, proc[p].write)]

update(p) == Modify(p) /\ proc' = [proc EXCEPT ![p] = Return(@)]

----------------------------------------------------------------------------
(* What can go wrong with a request.  rpc sends it once more after a 401,  *)
(* which the store answers before it does anything.                        *)

\* Nothing happened in the store.
requestFails(p) ==
    /\ "failed" \in Faults /\ proc[p].todo # <<>>
    /\ proc' = [proc EXCEPT ![p] = IF proc[p].pc = "check" THEN Return(@) ELSE Failed(@)]
    /\ UNCHANGED docs

\* It took effect, and the answer did not come.
answerIsLost(p) ==
    /\ "lost" \in Faults
    /\ Modify(p) \/ Insert(p)
    /\ proc' = [proc EXCEPT ![p] = Failed(@)]

\* The process dies.
Crash(p) ==
    /\ "crash" \in Faults /\ proc[p].todo # <<>>
    /\ proc' = [proc EXCEPT ![p] = Ended]
    /\ UNCHANGED docs

Repository(p) ==
    \/ findByIdempotencyKey(p) \/ findsNothing(p) \/ converge(p) \/ readRaw(p) \/ update(p)
    \/ create(p) \/ download(p) \/ readTextLayer(p) \/ visionRead(p)
=============================================================================
