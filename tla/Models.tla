------------------------------- MODULE Models -------------------------------
(***************************************************************************)
(* The model validator (import/validate-models.mjs): the one mechanical    *)
(* guard between the JSON models of the ThingStore and a Watcher whose     *)
(* queries "silently return nothing".                                      *)
(*                                                                         *)
(* A file is a record of what the checks look at; its kind is the suffix   *)
(* of its id.  A tree that is walked is the set, or the sequence, of what  *)
(* the walk would meet in it.                                              *)
(***************************************************************************)
EXTENDS Naturals, Sequences, FiniteSets

\* What the Runtime filters on.
WATCHER_FIELDS ==
    [Assistant_DM |-> {"f_key"},
     Conversation_DM |-> {"f_assistantKey", "f_subjectThingId", "f_scheduledFor", "f_status", "f_waitingFor", "f_wakeAt",
                          "f_leaseUntil", "f_parentConversationId", "f_currentQuestionId", "f_resultDeliveredAt",
                          "f_createdAt"},
     OpenQuestion_DM |-> {"f_conversationId", "f_answeredAt", "f_idempotencyKey"},
     Operation_DM |-> {"f_idempotencyKey"},
     RuntimeState_DM |-> {"f_singletonKey", "f_heartbeatAt"},
     Document_DM |-> {"f_createdAt", "f_idempotencyKey", "f_createdByConversationId"},
     Invoice_DM |-> {"f_createdAt", "f_idempotencyKey", "f_createdByConversationId", "f_invoiceNumber"},
     Party_DM |-> {"f_createdAt", "f_idempotencyKey"},
     Process_DM |-> {"f_createdAt", "f_idempotencyKey"}]

MANDATORY_FIELDS ==
    [Party_DM |-> {"f_name"}, Process_DM |-> {"f_title"}, Document_DM |-> {"f_title"},
     Invoice_DM |-> {"f_invoiceNumber", "f_issuerName", "f_issueDate", "f_amountGross"}]

FORM_CONTENT_KEYS == {"subHeaderBox", "footerBox", "screens", "fieldConfiguration", "groupConfiguration", "defaults"}

MACHINE_FIELD_TAIL == <<"f_idempotencyKey", "f_createdByConversationId", "f_createdAt", "f_updatedAt">>

\* Fields whose absence from every form is meant: the machine's own, the Runtime's
\* bookkeeping, the attachment's nine.
INTENTIONALLY_UNEXPOSED ==
    {"f_idempotencyKey", "f_createdByConversationId", "f_updatedAt", "f_createdAt", "f_leaseUntil", "f_maxTurns",
     "f_escalationCount", "f_resultDeliveredAt", "f_wm_docRef", "f_entry_idempotencyKey", "f_seq",
     "f_attachment_originalFilename", "f_attachment_internalFilename", "f_attachment_content",
     "f_attachment_attachmentId", "f_attachment_size", "f_attachment_mimeType", "f_attachment_thumbnail",
     "f_attachment_category", "f_attachment_description"}

Bilingual(codes) == {"en", "de"} \subseteq codes

ErrorIf(condition, file, what) == IF condition THEN {<<file.name, what>>} ELSE {}

----------------------------------------------------------------------------
(* Reading. *)

idOf(file) == IF file.id = "none" THEN file.name ELSE file.id

\* A later file takes the place of an earlier one of the same id.
models(files) ==
    {files[i] : i \in {i \in DOMAIN files : files[i].json /\
                         ~\E j \in (i + 1)..Len(files) : files[j].json /\ idOf(files[j]) = idOf(files[i])}}

\* A file that is no JSON is an error of its own and no model.
unreadable(files) == UNION {ErrorIf(~files[i].json, files[i], "not valid JSON") : i \in DOMAIN files}

\* The fields of a data model by id, groups among them; of two with one id the last stays.
dmFields(file) ==
    [f \in {file.fields[i].id : i \in DOMAIN file.fields} |->
        file.fields[CHOOSE i \in DOMAIN file.fields :
            file.fields[i].id = f /\ \A j \in (i + 1)..Len(file.fields) : file.fields[j].id # f]]

----------------------------------------------------------------------------
(* The checks, one operator for each. *)

headerErrors(file) ==
    ErrorIf("runtime" \notin file.roles, file, "roles")            \* {}: no such annotation
    \cup ErrorIf(~Bilingual(file.locales), file, "locales")
    \cup ErrorIf(file.id \notin {"none", file.name}, file, "header.id")
    \cup ErrorIf(file.titled /\ ~Bilingual(file.titles), file, "labels")
    \cup ErrorIf(file.nested, file, "nested annotations")

watcherErrors(dms) ==
    UNION {IF dm \notin DOMAIN dms THEN {<<dm, "missing">>}
           ELSE {<<dm, f>> : f \in {f \in WATCHER_FIELDS[dm] : f \notin DOMAIN dms[dm] \/ ~dms[dm][f].indexed}}
           : dm \in DOMAIN WATCHER_FIELDS}

mandatoryErrors(dms) ==
    UNION {IF dm \notin DOMAIN dms THEN {<<dm, "missing">>}
           ELSE {<<dm, f>> : f \in {f \in MANDATORY_FIELDS[dm] : f \notin DOMAIN dms[dm] \/ ~dms[dm][f].required}}
           : dm \in DOMAIN MANDATORY_FIELDS}

\* Every indexed field, whoever filters on it.
typeErrors(dms) ==
    UNION {{<<dm, f>> : f \in {f \in DOMAIN dms[dm] : /\ ~dms[dm][f].group /\ dms[dm][f].indexed
                                                     /\ dms[dm][f].type \notin {"StringType", "DateTimeType"}}}
           : dm \in DOMAIN dms}

\* The last elements of the one root group are the four machine fields, in order.
tailErrors(file) ==
    LET n == Len(file.elements)
        tail == SubSeq(file.elements, IF n > 4 THEN n - 3 ELSE 1, n)
    IN  ErrorIf(file.roots # 1, file, "root groups")
        \cup ErrorIf(file.roots = 1 /\ tail # MACHINE_FIELD_TAIL, file, "machine fields")

\* Every elementRef and groupRef of a view, wherever it stands.
referenced(file) == file.refs \cup {file.configured[i] : i \in DOMAIN file.configured} \cup file.markdown

\* What a custom element says it renders: a group, and with it the fields below.
exposed(file, fields) ==
    UNION {{g} \cup fields[g].children : g \in {g \in file.exposes : g \in DOMAIN fields /\ fields[g].group}}

\* A form or an overview against the data model it is bound to.
viewErrors(file, dms) ==
    CASE file.reference = "none" -> {<<file.name, "no modelReference">>}
      [] file.reference # "none" /\ file.reference \notin DOMAIN dms -> {<<file.name, "references nothing">>}
      [] OTHER ->
         LET fields == dms[file.reference] IN
         {<<file.name, r>> : r \in referenced(file) \ DOMAIN fields}
         \cup ErrorIf(file.kind = "OM" /\ ~file.rowActions, file, "rowActionGroup")
         \cup (IF file.kind # "FM" THEN {} ELSE
                 {<<file.name, k>> : k \in FORM_CONTENT_KEYS \ file.keys}
                 \cup {<<file.name, file.configured[i]>> : i \in {i \in DOMAIN file.configured :
                                                    \E j \in 1..(i - 1) : file.configured[j] = file.configured[i]}}
                 \cup {<<file.name, r>> : r \in {r \in file.markdown : r \notin file.areas
                                                    \/ r \notin DOMAIN fields \/ ~fields[r].markdown}}
                 \cup {<<file.name, g>> : g \in {g \in file.exposes : g \notin DOMAIN fields \/ ~fields[g].group}})

DataModels(files) ==
    LET dm == {f \in models(files) : f.kind = "DM"}
    IN  [id \in {idOf(f) : f \in dm} |-> dmFields(CHOOSE f \in dm : idOf(f) = id)]

errors(files) ==
    LET dms == DataModels(files) IN
    unreadable(files)
    \cup UNION {headerErrors(f) : f \in models(files)}
    \cup watcherErrors(dms) \cup mandatoryErrors(dms) \cup typeErrors(dms)
    \cup UNION {tailErrors(f) : f \in {f \in models(files) : f.kind = "DM"}}
    \cup UNION {viewErrors(f, dms) : f \in {f \in models(files) : f.kind \in {"FM", "OM"}}}

\* The hint, which never fails a build: fields of a data model that its form does not show.
\* A form that is bound to nothing is past hinting.
unexposed(files) ==
    LET dms == DataModels(files) IN
    UNION {LET fields == dms[f.reference]
           IN  {x \in DOMAIN fields : ~fields[x].group} \ (INTENTIONALLY_UNEXPOSED \cup referenced(f) \cup exposed(f, fields))
           : f \in {f \in models(files) : f.kind = "FM" /\ f.reference \in DOMAIN dms}}
=============================================================================
