----------------------------- MODULE MCSchedule -----------------------------
(***************************************************************************)
(* Small schedules: the instants at which a cron may be due.  A reading is *)
(* hhmm, with a day in front of it where there is more than one.           *)
(***************************************************************************)
EXTENDS Schedule

\* Two nights, the second the one on which half past two comes twice.
TwoNights == <<10230, 10300, 20130, 20230, 20230, 20300>>

\* Half past two every night and a last look at three; another Assistant at half past
\* one, at an hour the first night does not have.
Nightly == << [by |-> "clerk", cron |-> {10230, 20230}],
              [by |-> "clerk", cron |-> {20300}],
              [by |-> "accountant", cron |-> {10130, 20130}] >>

----------------------------------------------------------------------------
(* One query on f_scheduledFor carries the births of the clock: the        *)
(* validator that guards it, over the data models, a form and an overview. *)
M == INSTANCE Models

Field(id) == [id |-> id, group |-> FALSE, indexed |-> TRUE, type |-> "StringType", required |-> TRUE,
              markdown |-> id = "f_status", children |-> {}]
Text == [Field("f_text") EXCEPT !.indexed = FALSE, !.type = "EnumerationType"]
Entries == [Field("f_entries") EXCEPT !.group = TRUE, !.indexed = FALSE, !.children = {"f_text"}]

File(name, kind) ==
    [name |-> name, id |-> name, kind |-> kind, json |-> TRUE, roles |-> {"user", "runtime"}, locales |-> {"en", "de"},
     titled |-> TRUE, titles |-> {"en", "de"}, nested |-> FALSE, roots |-> 1, elements |-> <<>>, fields |-> <<>>,
     reference |-> "none", refs |-> {}, rowActions |-> TRUE, keys |-> {}, configured |-> <<>>, areas |-> {},
     markdown |-> {}, exposes |-> {}]

Listed(set) == FoldSet(LAMBDA x, s : Append(s, x), <<>>, set)

DataModel(name) ==
    LET tail == {M!MACHINE_FIELD_TAIL[i] : i \in 1..4}
        asked == M!WATCHER_FIELDS[name]
                 \cup IF name \in DOMAIN M!MANDATORY_FIELDS THEN M!MANDATORY_FIELDS[name] ELSE {}
    IN  [File(name, "DM") EXCEPT !.elements = Listed(asked \ tail) \o M!MACHINE_FIELD_TAIL,
                                 !.fields = Listed({Field(f) : f \in asked \cup tail} \cup {Text, Entries})]

Form == [File("Conversation_FM", "FM") EXCEPT !.reference = "Conversation_DM", !.keys = M!FORM_CONTENT_KEYS,
            !.refs = M!WATCHER_FIELDS["Conversation_DM"], !.configured = <<"f_status", "f_wakeAt">>,
            !.areas = {"f_status"}, !.markdown = {"f_status"}, !.exposes = {"f_entries"}]
Overview == [File("Conversation_OM", "OM") EXCEPT !.reference = "Conversation_DM", !.refs = {"f_status"}]

Conversation == DataModel("Conversation_DM")
Rest == Listed({DataModel(name) : name \in DOMAIN M!WATCHER_FIELDS \ {"Conversation_DM"}})
Shipped == Rest \o <<Conversation, Form, Overview>>

\* One field of a data model as F makes it.
WithField(file, id, F(_)) ==
    [file EXCEPT !.fields = [i \in DOMAIN @ |-> IF @[i].id = id THEN F(@[i]) ELSE @[i]]]

Types == {"StringType", "DateTimeType", "EnumerationType"}
ConversationModels ==
    {WithField(Conversation, "f_scheduledFor", LAMBDA f : [f EXCEPT !.indexed = indexed, !.type = type, !.id = id]) :
        indexed \in BOOLEAN, type \in Types, id \in {"f_scheduledFor", "f_slot"}}
FormModels ==
    {[Form EXCEPT !.keys = @ \ k, !.reference = r, !.configured = c, !.areas = a, !.exposes = e] :
        k \in {{}, {"subHeaderBox"}}, r \in {"none", "Conversation_DM", "Invoice_DM"},
        c \in {<<"f_status", "f_wakeAt">>, <<"f_status", "f_status">>}, a \in {{}, {"f_status"}},
        e \in {{}, {"f_entries"}, {"f_entriez"}}}

\* The models as they ship pass, and what each field shows is shown somewhere.
ASSUME ShippedPass == M!errors(Shipped) = {} /\ M!unexposed(Shipped) = {}

\* Where nothing is reported, every field the Watcher filters on is there to be filtered
\* on, and a form binds to a model that has all it names, once.
ASSUME PassedIsAnswerable ==
    \A c \in ConversationModels, f \in FormModels :
        M!errors(Rest \o <<c, f, Overview>>) = {} =>
            /\ \A w \in M!WATCHER_FIELDS["Conversation_DM"] : \E i \in DOMAIN c.fields :
                 /\ c.fields[i].id = w /\ c.fields[i].indexed /\ c.fields[i].type # "EnumerationType"
            /\ f.keys = M!FORM_CONTENT_KEYS /\ f.configured[1] # f.configured[2]
            /\ f.refs \subseteq {c.fields[i].id : i \in DOMAIN c.fields}
            /\ "f_text" \in M!unexposed(Rest \o <<c, f, Overview>>) <=> f.exposes = {}

\* The cases of the validator's own self-test: each breaks one rule, and none passes.
ASSUME EachRuleBites ==
    LET DMs == {[Conversation EXCEPT !.roles = {"user"}], [Conversation EXCEPT !.roles = {}],
                [Conversation EXCEPT !.titles = {"en"}], [Conversation EXCEPT !.locales = {"de"}],
                [Conversation EXCEPT !.nested = TRUE], [Conversation EXCEPT !.json = FALSE],
                [Conversation EXCEPT !.roots = 2], [Conversation EXCEPT !.elements = SubSeq(@, 1, Len(@) - 1)],
                WithField(Conversation, "f_status", LAMBDA f : [f EXCEPT !.markdown = FALSE])}
    IN  /\ \A c \in DMs : M!errors(Rest \o <<c, Form, Overview>>) # {}
        /\ M!errors(Rest \o <<Conversation, [Form EXCEPT !.id = "Form", !.kind = "none"], Overview>>) # {}
        /\ M!errors(Rest \o <<Conversation, Form, [Overview EXCEPT !.rowActions = FALSE]>>) # {}
        /\ \A i \in DOMAIN Rest : M!errors([Shipped EXCEPT ![i] =
              [@ EXCEPT !.elements = SubSeq(@, 1, Len(@) - 4) \o <<"f_createdAt", "f_idempotencyKey",
                                     "f_createdByConversationId", "f_updatedAt">>]]) # {}
        /\ \A i \in DOMAIN Rest : Rest[i].name \in DOMAIN M!MANDATORY_FIELDS =>
              \A f \in M!MANDATORY_FIELDS[Rest[i].name] :
                  M!errors([Shipped EXCEPT ![i] = WithField(@, f, LAMBDA x : [x EXCEPT !.required = FALSE])]) # {}

\* What it does not see: a file under the id of a later one is not checked at all, and
\* nothing asks for the index of the key that births are recognised by.
ASSUME WhatIsNotChecked ==
    /\ M!errors(<<[Conversation EXCEPT !.name = "Copy", !.roles = {}, !.nested = TRUE]>> \o Shipped) = {}
    /\ M!errors(Rest \o <<WithField(Conversation, "f_idempotencyKey", LAMBDA f : [f EXCEPT !.indexed = FALSE]),
                           Form, Overview>>) = {}
=============================================================================
