----------------------------- MODULE MailIngest -----------------------------
(***************************************************************************)
(* Scan 0: the letterbox.  A poll takes a batch of messages out of the     *)
(* incoming folder, turns each into Documents and files it under what it   *)
(* turned out to be: processed, rejected or failed.                        *)
(*                                                                         *)
(* There is no record of mail that was read.  A Document carries an        *)
(* ExternalRef made of the Message-ID and the number of the part; a mail   *)
(* without a Message-ID is known by what its mailbox calls it, an IMAP UID *)
(* in a UIDVALIDITY generation or a Gmail id.  The move comes last, so a   *)
(* mail whose poll was interrupted is simply met again.                    *)
(***************************************************************************)
EXTENDS Integers, Sequences, FiniteSets, FiniteSetsExt, SequencesExt, Selection

CONSTANTS
    Transports,      \* the connectors to consider: "imap", "gmail"
    Kinds,           \* the mails that may arrive: what the code tells apart about them
    BatchSizes,      \* the settings of MAIL_MAX_PER_POLL to consider
    MaxMessageBytes, MaxTotalBytes,   \* FetchLimits
    MaxText,         \* MAX_EXTRACTED_TEXT_LENGTH, in passages
    MaxMails,        \* bound: mails that arrive
    MaxFaults,       \* bound: failing calls and crashes
    MaxEdits         \* bound: what the User does to mailbox, settings and switch

Mail == [from : {"allowed", "stranger", "forged"}, id : BOOLEAN, garbled : BOOLEAN,
         parts : Seq({"small", "big", "inline"}), size : Nat, note : Nat]

ASSUME MailAssumption ==
    /\ Transports \subseteq {"imap", "gmail"}
    /\ Kinds \subseteq Mail
    /\ BatchSizes \subseteq Nat \ {0}
    /\ {MaxMessageBytes, MaxTotalBytes, MaxText, MaxMails, MaxFaults, MaxEdits} \subseteq Nat

VARIABLES
    transport, maxPerPoll,       \* how this household has configured its letterbox
    mail, folder,    \* the mails in the order they arrived, and where they are
    uid, nextUid, uidValidity,   \* what IMAP calls the mails of the incoming folder
    docs,            \* the Documents: ExternalRef, what they were made of, ExtractedText
    bigFits,         \* does a big attachment fit under MAIL_MAX_ATTACHMENT_BYTES
    switchedOn,      \* the Operation Thing email.receive
    pc, todo, pending, dest,     \* the poll: where it is, the batch, the parts, the verdict
    judged,          \* history: the cap a mail was last filed as processed under
    faults, edits

mailbox == <<transport, maxPerPoll, mail, folder, uid, nextUid, uidValidity>>
poll == <<pc, todo, pending, dest>>
settings == <<bigFits, switchedOn, edits>>
mailVars == <<mailbox, docs, settings, poll, judged, faults>>

Mails == DOMAIN mail

MailInit ==
    /\ transport \in Transports /\ maxPerPoll \in BatchSizes
    /\ mail = <<>> /\ folder = <<>> /\ uid = <<>> /\ nextUid = 1 /\ uidValidity = 1
    /\ docs = {} /\ bigFits = FALSE /\ switchedOn = TRUE
    /\ pc = "idle" /\ todo = <<>> /\ pending = <<>> /\ dest = "incoming"
    /\ judged = <<>> /\ faults = 0 /\ edits = 0

-----------------------------------------------------------------------------
(* What a poll takes.                                                      *)

Incoming == {m \in Mails : folder[m] = "incoming"}

\* IMAP walks the folder by UID and stops at the maximum.
imapCandidates ==
    LET uids == {uid[m] : m \in Incoming}
        all == [n \in 1..Cardinality(uids) |-> CHOOSE m \in Incoming : uid[m] = Nth(uids, n)]
    IN  SubSeq(all, 1, Min({maxPerPoll, Len(all)}))

\* Gmail lists the newest first; its pages are followed up to the maximum.
listMessageIds ==
    LET all == Reverse(Sorted(Incoming))
    IN  SubSeq(all, 1, Min({maxPerPoll, Len(all)}))

\* The connector turns them round, so that a backlog drains in the order it arrived.
gmailCandidates == Reverse(listMessageIds)

Candidates == IF transport = "imap" THEN imapCandidates ELSE gmailCandidates

TooLarge(m) == mail[m].size > MaxMessageBytes

\* The bytes asked for up to the i-th candidate.
Asked(c, i) == MapThenSumSet(LAMBDA j : mail[c[j]].size, {j \in 1..i : ~TooLarge(c[j])})

\* Slip: the budget applies to the first one too.
OverBudget_FirstToo(c, i) == ~TooLarge(c[i]) /\ Asked(c, i) > MaxTotalBytes

\* The first affordable one is always taken, however large.
OverBudget(c, i) ==
    /\ ~TooLarge(c[i]) /\ Asked(c, i) > MaxTotalBytes
    /\ \E j \in 1..(i - 1) : ~TooLarge(c[j])

\* Up to the candidate that breaks the budget: the undownloadable ones, to be filed
\* first, and the ones to download.
planFetch(c) ==
    LET cut == Min({Len(c) + 1} \cup {i \in 1..Len(c) : OverBudget(c, i)})
        met == SubSeq(c, 1, cut - 1)
        undownloadable == {i \in DOMAIN met : TooLarge(met[i])}
    IN  Pick(met, undownloadable) \o Pick(met, DOMAIN met \ undownloadable)

\* What the poll keeps of a message: which it is, and what its mailbox calls it now.
Fetched(c) == [i \in 1..Len(c) |-> [mail |-> c[i], uid |-> uid[c[i]]]]

-----------------------------------------------------------------------------
(* What a message becomes.                                                 *)

\* Slip: a UID is taken to be unique for good.
synthesiseMessageId_NoGeneration(f) ==
    [mail |-> IF transport = "gmail" THEN f.mail ELSE 0,
     uid |-> IF transport = "gmail" THEN 0 ELSE f.uid, uidValidity |-> 0]

\* Gmail's ids are never issued again; an IMAP UID counts within its generation.
synthesiseMessageId(f) ==
    IF transport = "gmail" THEN [mail |-> f.mail, uid |-> 0, uidValidity |-> 0]
    ELSE [mail |-> 0, uid |-> f.uid, uidValidity |-> uidValidity]

messageId(f) ==
    IF mail[f.mail].id THEN [mail |-> f.mail, uid |-> 0, uidValidity |-> 0]
    ELSE synthesiseMessageId(f)

externalRef(f, part) ==
    [mail |-> messageId(f).mail, uid |-> messageId(f).uid,
     uidValidity |-> messageId(f).uidValidity, part |-> part]

Fits(part) == part = "small" \/ (part = "big" /\ bigFits)

\* The parts kept, by their position in the whole list.
partitionAttachments(m) ==
    Sorted({n \in DOMAIN mail[m].parts : Fits(mail[m].parts[n])})

\* Part 0 stands for a mail without attachments, -1 for one whose attachments were
\* all too big.
parseMessage(m) ==
    IF partitionAttachments(m) # <<>> THEN partitionAttachments(m)
    ELSE IF \E n \in DOMAIN mail[m].parts : mail[m].parts[n] = "big" THEN <<-1>>
    ELSE <<0>>

\* The text a Document arrives with is a sequence of passages: the body of the mail, a
\* line for every attachment skipped, and what the PDF says under the name of its file.
bodyText(m) == [i \in 1..mail[m].note |-> <<"body", i>>]

describeSkipped(m) ==
    LET skipped == {n \in DOMAIN mail[m].parts : mail[m].parts[n] = "big" /\ ~bigFits}
    IN  [i \in 1..Cardinality(skipped) |-> <<"skipped", Nth(skipped, i)>>]

\* A small attachment is a PDF with a text layer, a big one a scan, which has none.
withTextLayer(m, part) ==
    IF part > 0 /\ mail[m].parts[part] = "small" THEN <<<<"heading", part>>, <<"read", part>>>>
    ELSE <<>>

\* The cut is told in the text itself.
cappedText(text) ==
    IF Len(text) <= MaxText THEN text ELSE SubSeq(text, 1, MaxText) \o <<<<"truncated", 0>>>>

extractedText(m, part) ==
    cappedText(bodyText(m) \o describeSkipped(m) \o withTextLayer(m, part))

\* Slip: the kept attachments are counted.
PartNumber_OfKept(m, part) ==
    IF part <= 0 THEN part
    ELSE Cardinality({n \in 1..part : Fits(mail[m].parts[n])})

PartNumber(m, part) == part

HasLanded(ref) == \E d \in docs : d.ref = ref

-----------------------------------------------------------------------------
(* The poll.                                                               *)

\* A switch that cannot be read counts as on.
isSwitchedOn ==
    \/ switchedOn /\ UNCHANGED faults
    \/ ~switchedOn /\ faults < MaxFaults /\ faults' = faults + 1

fetchBatch ==
    /\ pc = "idle" /\ isSwitchedOn /\ Incoming # {}
    /\ pc' = "mail" /\ \E c \in {Candidates} : todo' = Fetched(planFetch(c))
    /\ UNCHANGED <<mailbox, docs, settings, pending, dest, judged>>

Now == Head(todo)
Verdict(folderName) == dest' = folderName /\ pc' = "move"

\* The envelope is looked at before the mail is parsed; Gmail's is the From header.
isAllowedSender(m) ==
    mail[m].from = "allowed" \/ (mail[m].from = "forged" /\ transport = "imap")

fileOversized ==
    /\ pc = "mail" /\ todo # <<>> /\ TooLarge(Now.mail)
    /\ Verdict("failed")
    /\ UNCHANGED <<mailbox, docs, settings, todo, pending, judged, faults>>

\* A sender who may not write, by the envelope or, once parsed, by the header; a mail
\* that cannot be parsed; or Documents to make.
classifyMessage ==
    /\ pc = "mail" /\ todo # <<>> /\ ~TooLarge(Now.mail)
    /\ LET m == Now.mail
       IN  \/ /\ ~isAllowedSender(m)
              /\ Verdict("rejected") /\ UNCHANGED pending
           \/ /\ isAllowedSender(m) /\ mail[m].garbled
              /\ Verdict("failed") /\ UNCHANGED pending
           \/ /\ isAllowedSender(m) /\ ~mail[m].garbled /\ mail[m].from = "forged"
              /\ Verdict("rejected") /\ UNCHANGED pending
           \/ /\ isAllowedSender(m) /\ ~mail[m].garbled /\ mail[m].from = "allowed"
              /\ pending' = parseMessage(m) /\ pc' = "documents" /\ UNCHANGED dest
    /\ UNCHANGED <<mailbox, docs, settings, todo, judged, faults>>

Ref == externalRef(Now, PartNumber(Now.mail, Head(pending)))

\* One Document: skipped if its ExternalRef is there; otherwise its attachment is
\* uploaded, if it has one, and it is created.
ingestDocument ==
    /\ pc = "documents" /\ pending # <<>>
    /\ IF HasLanded(Ref) THEN pending' = Tail(pending) /\ UNCHANGED pc
       ELSE pc' = (IF Head(pending) > 0 THEN "upload" ELSE "create") /\ UNCHANGED pending
    /\ UNCHANGED <<mailbox, docs, settings, todo, dest, judged, faults>>

upload ==
    /\ pc = "upload" /\ pc' = "create"
    /\ UNCHANGED <<mailbox, docs, settings, todo, pending, dest, judged, faults>>

\* The ExternalRef is the idempotency key too.
Landed ==
    IF HasLanded(Ref) THEN docs
    ELSE docs \cup {[ref |-> Ref, mail |-> Now.mail, part |-> Head(pending),
                 text |-> extractedText(Now.mail, Head(pending))]}

createDocument ==
    /\ pc = "create" /\ pc' = "documents"
    /\ docs' = Landed /\ pending' = Tail(pending)
    /\ UNCHANGED <<mailbox, settings, todo, dest, judged, faults>>

\* The store refuses the query, the upload or the Document, or creates it and its answer
\* is lost: the mail has failed, and what has landed stays.
ingestFails ==
    /\ pc \in {"documents", "upload", "create"} /\ pending # <<>> /\ faults < MaxFaults
    /\ faults' = faults + 1
    /\ UNCHANGED docs \/ (pc = "create" /\ docs' = Landed)
    /\ pending' = <<>> /\ Verdict("failed")
    /\ UNCHANGED <<mailbox, settings, todo, judged>>

AllLanded ==
    /\ pc = "documents" /\ pending = <<>>
    /\ Verdict("processed")
    /\ UNCHANGED <<mailbox, docs, settings, todo, pending, judged, faults>>

NextMail == todo' = Tail(todo) /\ pc' = "mail" /\ dest' = "incoming"

\* IMAP moves the UID it was given: a message that has left the folder meanwhile, or has
\* come back under another UID, stays where it is.
imapMove ==
    /\ transport = "imap"
    /\ folder' = IF uid[Now.mail] = Now.uid THEN [folder EXCEPT ![Now.mail] = dest] ELSE folder
    /\ uid' = IF uid[Now.mail] = Now.uid THEN [uid EXCEPT ![Now.mail] = 0] ELSE uid

\* Gmail puts one label on and takes the other off, wherever the message is.
gmailMove ==
    /\ transport = "gmail"
    /\ folder' = [folder EXCEPT ![Now.mail] = dest]
    /\ uid' = [uid EXCEPT ![Now.mail] = 0]

\* The move is the last thing that happens to a mail, whatever it turned out to be.
handleMessage ==
    /\ pc = "move"
    /\ imapMove \/ gmailMove
    /\ judged' = IF dest = "processed" THEN [judged EXCEPT ![Now.mail] = bigFits] ELSE judged
    /\ NextMail
    /\ UNCHANGED <<transport, maxPerPoll, mail, nextUid, uidValidity, docs, settings, pending, faults>>

\* It stays in the incoming folder, and is met again.
moveFails ==
    /\ pc = "move" /\ faults < MaxFaults
    /\ faults' = faults + 1
    /\ NextMail
    /\ UNCHANGED <<mailbox, docs, settings, pending, judged>>

EndPoll ==
    /\ pc = "mail" /\ todo = <<>>
    /\ pc' = "idle"
    /\ UNCHANGED <<mailbox, docs, settings, todo, pending, dest, judged, faults>>

\* The Runtime dies, or the connection does and takes the poll with it.
PollDies ==
    /\ pc # "idle" /\ faults < MaxFaults
    /\ faults' = faults + 1
    /\ pc' = "idle" /\ todo' = <<>> /\ pending' = <<>> /\ dest' = "incoming"
    /\ UNCHANGED <<mailbox, docs, settings, judged>>

-----------------------------------------------------------------------------
(* The world.                                                              *)

MailArrives ==
    /\ Len(mail) < MaxMails
    /\ \E kind \in Kinds : mail' = Append(mail, kind)
    /\ folder' = Append(folder, "incoming")
    /\ uid' = Append(uid, nextUid) /\ nextUid' = nextUid + 1
    /\ judged' = Append(judged, FALSE)
    /\ UNCHANGED <<transport, maxPerPoll, uidValidity, docs, settings, poll, faults>>

\* The User moves a mail back for another try; a message moved into an IMAP folder gets
\* a new UID there.
UserMovesBack ==
    /\ edits < MaxEdits /\ edits' = edits + 1
    /\ \E m \in Mails \ Incoming :
          /\ folder' = [folder EXCEPT ![m] = "incoming"]
          /\ uid' = [uid EXCEPT ![m] = nextUid] /\ nextUid' = nextUid + 1
    /\ UNCHANGED <<transport, maxPerPoll, mail, uidValidity, docs, bigFits, switchedOn, poll, judged, faults>>

\* The User clears a mail away while it waits, or while the poll is at work on it.
UserTakesAway ==
    /\ edits < MaxEdits /\ edits' = edits + 1
    /\ \E m \in Incoming :
          /\ folder' = [folder EXCEPT ![m] = "elsewhere"]
          /\ uid' = [uid EXCEPT ![m] = 0]
    /\ UNCHANGED <<transport, maxPerPoll, mail, nextUid, uidValidity, docs, bigFits, switchedOn, poll, judged, faults>>

\* The cap is a setting: the Runtime is restarted with it.
UserRaisesCap ==
    /\ pc = "idle" /\ ~bigFits /\ edits < MaxEdits
    /\ bigFits' = TRUE /\ edits' = edits + 1
    /\ UNCHANGED <<mailbox, docs, switchedOn, poll, judged, faults>>

\* The label is deleted and made anew: another generation of UIDs, beginning at one.
UserRecreatesFolder ==
    /\ pc = "idle" /\ transport = "imap" /\ Incoming = {} /\ edits < MaxEdits
    /\ uidValidity' = uidValidity + 1 /\ nextUid' = 1 /\ edits' = edits + 1
    /\ UNCHANGED <<transport, maxPerPoll, mail, folder, uid, docs, bigFits, switchedOn, poll, judged, faults>>

UserSwitches ==
    /\ edits < MaxEdits
    /\ switchedOn' = ~switchedOn /\ edits' = edits + 1
    /\ UNCHANGED <<mailbox, docs, bigFits, poll, judged, faults>>

runMailIngest ==
    \/ fetchBatch \/ fileOversized \/ classifyMessage \/ ingestDocument \/ upload
    \/ createDocument \/ ingestFails \/ AllLanded \/ handleMessage \/ moveFails \/ EndPoll

MailNext ==
    \/ runMailIngest \/ PollDies \/ MailArrives
    \/ UserMovesBack \/ UserTakesAway \/ UserRaisesCap \/ UserRecreatesFolder \/ UserSwitches

MailSpec == MailInit /\ [][MailNext]_mailVars

\* The Watcher polls again every interval, whatever became of the last poll.
FairMailSpec == MailSpec /\ WF_mailVars(runMailIngest)

-----------------------------------------------------------------------------
(* What makes it correct.                                                  *)

\* A mail that is filed as processed has landed whole: a Document of it for every
\* attachment that fitted, or one for its text, in spite of refs that are all the
\* duplicate check has to go by; and an attachment that was left out is named in a
\* Document of the mail, unless that Document says itself that its text was cut.  A cap
\* raised later asks for nothing until a replay.
ProcessedHasLanded ==
    \A m \in Mails : folder[m] = "processed" =>
        LET of == {d \in docs : d.mail = m}
        IN  /\ of # {}
            /\ \A n \in DOMAIN mail[m].parts :
                  /\ mail[m].parts[n] = "small" \/ (mail[m].parts[n] = "big" /\ judged[m])
                     => \E d \in of : d.part = n
                  /\ mail[m].parts[n] = "big"
                     => \E d \in of : \/ d.part = n
                                      \/ {<<"skipped", n>>, <<"truncated", 0>>} \cap Range(d.text) # {}

\* A part of a mail becomes one Document, however often its poll fails, its move fails,
\* the User moves it back or the cap is raised: for every mail with a Message-ID, and
\* for every mail that came through Gmail.
OneDocumentPerPart ==
    \A d, e \in docs :
        /\ d.mail = e.mail /\ d.part = e.part
        /\ mail[d.mail].id \/ transport = "gmail"
        => d = e

\* Every mail leaves the incoming folder while the letterbox is switched on, whatever
\* lies before it: nothing too large, garbled or unwelcome blocks the head of the queue.
EveryMailIsFiled ==
    \A m \in 1..MaxMails : (m \in Incoming) ~> (m \notin Incoming \/ ~switchedOn)
=============================================================================
