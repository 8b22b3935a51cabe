------------------------------- MODULE RulePath -------------------------------
(***************************************************************************)
(* What the rules a user writes do, from the files to the screen: precd    *)
(* loads them (ConfigInclude), NewService compiles them, a call of a       *)
(* process runs the capture guard (CaptureProgram), what is left of it the *)
(* filter, and prec shows what its flags and queries select (QueryFilter). *)
(* One behaviour is one configuration, one call and one look at the log.   *)
(*                                                                         *)
(* Rules and queries are written here as their writer means them, OR of    *)
(* AND of clauses [key, op, val]; the programs see their texts.            *)
(***************************************************************************)
EXTENDS ConfigInclude, CaptureProgram

CONSTANTS
    Processes, \* uid, gid, pid, tid, comm, user, auid, argv and source of callers
    Kinds,     \* "exec", "fail", "open", "save": what the traced call is
    Accounts,  \* what the name service may say: sets of [key, name, id]
    Lives,     \* end_timestamp, exit_status and duration, empty while it runs
    Flags      \* fileEvents, source, endFields and query of prec

VARIABLES
    stage,   \* of precd: "config", "refused", "running", "logged" or "dropped"
    matcher, \* Service.matcher
    policy,  \* Service.capturePolicy
    known,   \* the accounts (history)
    record,  \* the record of the call
    flags,   \* prec's command line, <<>> before it is called
    listFilter, \* the query it has built
    answer,  \* "none", "usage", "ready", "shown" or "hidden"
    life     \* how the process goes on (history)

precd == <<config, machine, stage, matcher, policy, known, record>>
prec  == <<flags, listFilter, answer, life>>
path  == <<precd, prec>>

-----------------------------------------------------------------------------
(* Texts.                                                                  *)

Join(parts, delimiter) ==
    FoldLeft(LAMBDA text, part : text \o <<delimiter>> \o part, Head(parts), Tail(parts))

ClauseText(c) == c.key \o c.op \o c.val

QueryText(terms) ==
    Join([t \in DOMAIN terms |->
             Join([c \in DOMAIN terms[t] |-> ClauseText(terms[t][c])], "&&")], "||")

RuleText(rule) == rule.sign \o QueryText(rule.terms)

Texts(rules) == [i \in DOMAIN rules |-> RuleText(rules[i])]

-----------------------------------------------------------------------------
(* precd.                                                                  *)

Nobody == [uid |-> 0, gid |-> 0, pid |-> 0, tid |-> 0, comm |-> <<>>]

PathInit ==
    /\ ConfigInit
    /\ program = <<>>
    /\ proc = Nobody
    /\ snapshot = <<>>
    /\ ip = 0
    /\ r0 = 0
    /\ r9 = 0
    /\ verdict = "none"
    /\ stage = "config"
    /\ matcher = <<>>
    /\ policy = <<>>
    /\ known = {}
    /\ record = <<>>
    /\ flags = <<>>
    /\ listFilter = <<>>
    /\ answer = "none"
    /\ life = <<>>

LoadStep ==
    /\ ConfigNext
    /\ UNCHANGED <<machine, stage, matcher, policy, known, record, prec>>

\* NewService, and the guard of the programs it loads.
Compile ==
    /\ stage = "config"
    /\ loading = "done"
    /\ matcher' = NewMatcher(Texts(cfg.filter), cfg.default)
    /\ policy' = CompileCaptureFilter(Texts(cfg.capture))
    /\ IF matcher'.ok /\ policy'.ok
       THEN /\ stage' = "running"
            /\ program' = IF policy'.rules = <<>> THEN <<>> ELSE GuardInstructions(policy')
       ELSE stage' = "refused" /\ UNCHANGED program
    /\ UNCHANGED <<config, proc, snapshot, ip, r0, r9, verdict, known, record, prec>>

\* Names to ids, one more than any id for a name nobody has (resolveIdentities).
ResolveIdentities(accounts) ==
    [i \in DOMAIN policy.identities |->
        LET same == {a \in accounts : /\ a.key = policy.identities[i].key
                                      /\ a.name = policy.identities[i].name}
        IN  IF same = {} THEN MaxWord ELSE (CHOOSE a \in same : TRUE).id]

TracedCall ==
    /\ stage = "running"
    /\ \E p \in Processes, accounts \in Accounts :
          /\ Call(p, ResolveIdentities(accounts))
          /\ known' = accounts
    /\ UNCHANGED <<config, stage, matcher, policy, record, prec>>

GuardStep ==
    /\ stage = "running"
    /\ Execute
    /\ UNCHANGED <<config, stage, matcher, policy, known, record, prec>>

RecordType ==
    [kind \in {"exec", "fail", "open", "save"} |->
        CASE kind = "exec" -> "proc_start" [] kind = "fail" -> "proc_fail"
          [] kind = "open" -> "file_open"  [] OTHER -> "file_save"]

\* BuildFromPID and the builders after it, as far as rules can ask.
Event(p, type) ==
    [uid |-> {p.uid}, auid |-> p.auid, timestamp |-> {1},
     end_timestamp |-> {}, exit_status |-> {}, duration |-> {},
     user |-> <<p.user>>, comm |-> p.comm, argv |-> p.argv, source |-> <<p.source>>,
     record_type |-> <<type>>]

\* Service.Run: a sample that passed the guard, and the filter's verdict.
Record ==
    /\ stage = "running"
    /\ verdict # "none"
    /\ IF verdict = "drop" THEN stage' = "dropped" /\ UNCHANGED record
       ELSE \E kind \in Kinds :
               /\ record' = Event(proc, RecordType[kind])
               /\ stage' = IF MatcherAllows(matcher, cfg.userOnly = "true", record')
                           THEN "logged" ELSE "dropped"
    /\ UNCHANGED <<config, machine, matcher, policy, known, prec>>

-----------------------------------------------------------------------------
(* prec.                                                                   *)

\* mergedCommandFromStart, applyCommandEnd
Joined(ev, end) ==
    IF ev.record_type = <<"proc_start">>
    THEN [ev EXCEPT !.record_type   = <<"proc_command">>,
                    !.end_timestamp = end.end_timestamp,
                    !.exit_status   = end.exit_status,
                    !.duration      = end.duration]
    ELSE ev

Running == [end_timestamp |-> {}, exit_status |-> {}, duration |-> {}]

\* Run of app.go: the flags and queries, built into one filter.
Ask ==
    /\ answer = "none"
    /\ flags' \in Flags
    /\ listFilter' = Build(EffectiveQuerySpecs(
                     [flags' EXCEPT !.query = [q \in DOMAIN @ |-> QueryText(@[q])]]))
    /\ answer' = IF listFilter'.ok THEN "ready" ELSE "usage"
    /\ UNCHANGED <<precd, life>>

\* requiresCommandEndProcessing decides which rows the query is asked of.
Look ==
    /\ answer = "ready"
    /\ stage = "logged"
    /\ life' \in Lives
    /\ LET row == Joined(record, IF listFilter.needsFinalizedCommand \/ flags.endFields
                                 THEN life' ELSE Running)
       IN  answer' = IF Match(listFilter, row) THEN "shown" ELSE "hidden"
    /\ UNCHANGED <<precd, flags, listFilter>>

PrecdNext == LoadStep \/ Compile \/ TracedCall \/ GuardStep \/ Record

PathNext == PrecdNext \/ Ask \/ Look

PathSpec == PathInit /\ [][PathNext]_path

-----------------------------------------------------------------------------
(* What the README says of rules.                                          *)

\* Texts that read in one way only: no value holds a character of operators.
Plain(terms) ==
    \A t \in DOMAIN terms : \A c \in DOMAIN terms[t] : \A i \in DOMAIN terms[t][c].val :
        terms[t][c].val[i] \notin {"=", "!", "~", "<", ">"}

ClausesOf(terms) == UNION {{terms[t][c] : c \in DOMAIN terms[t]} : t \in DOMAIN terms}

NumberTest == {<<"=">>, <<"!", "=">>, <<">">>, <<">", "=">>, <<"<">>, <<"<", "=">>}
NameTest   == {<<"=">>, <<"!", "=">>}
StringTest == NameTest \cup {<<"~", "=">>, <<"!", "~", "=">>}

Digits    == DOMAIN NumberOf
Numbers(key) == key \in {"uid", "auid", "exit_status", "timestamp", "end_timestamp", "duration"}
Strings(key) == key \in {"argv", "user", "comm", "source", "record_type"}

\* "Query syntax"
ReadsAsQuery(c) ==
    /\ Len(c.key) = 1
    /\ \/ Numbers(c.key[1]) /\ c.op \in NumberTest /\ Len(c.val) = 1 /\ c.val[1] \in Digits
       \/ Strings(c.key[1]) /\ c.op \in StringTest /\ c.val # <<>>
    /\ c.key[1] = "source" => c.val \in {<<"user">>, <<"system">>}
    /\ c.key[1] = "record_type" =>
          c.val \in {<<"proc_command">>, <<"proc_fail">>, <<"proc_loss">>,
                     <<"file_open">>, <<"file_save">>}

\* "Early capture filter"
ReadsAsCapture(c) ==
    /\ Len(c.key) = 1
    /\ \/ /\ c.key[1] \in {"uid", "gid", "pid"}
          /\ c.op \in NumberTest
          /\ Len(c.val) = 1 /\ c.val[1] \in Digits
       \/ c.key[1] \in {"user", "group"} /\ c.op \in NameTest /\ c.val # <<>>
       \/ c.key[1] = "comm" /\ c.op \in NameTest /\ c.val # <<>> /\ c.val \notin TooLong

NumberHolds(left, op, right) ==
    \/ op # <<"!", "=">> /\ "=" \in {op[i] : i \in DOMAIN op} /\ left = right
    \/ "<" = op[1] /\ left < right
    \/ ">" = op[1] /\ left > right
    \/ op = <<"!", "=">> /\ left # right

StringHolds(left, op, right) ==
    (op[1] = "!") #
    (IF "~" \in {op[i] : i \in DOMAIN op}
     THEN \E i, j \in DOMAIN left : SubSeq(left, i, j) = right ELSE left = right)

QueryHolds(c, ev) ==
    IF Strings(c.key[1]) THEN StringHolds(ev[c.key[1]], c.op, c.val)
    ELSE \E left \in ev[c.key[1]] : NumberHolds(left, c.op, NumberOf[c.val[1]])

CaptureHolds(c, p, accounts) ==
    LET key  == c.key[1]
        ids  == {a.id : a \in {a \in accounts : a.key = key /\ a.name = c.val}}
    IN  CASE key = "user"  -> (p.uid \in ids) = (c.op = <<"=">>)
          [] key = "group" -> (p.gid \in ids) = (c.op = <<"=">>)
          [] key = "comm"  -> (p.comm = c.val) = (c.op = <<"=">>)
          [] OTHER         -> NumberHolds(p[key], c.op, NumberOf[c.val[1]])

SomeTerm(terms, holds(_)) == \E t \in DOMAIN terms : \A c \in DOMAIN terms[t] : holds(terms[t][c])

\* "Rules are ORed; && clauses within a term are ANDed"; no rules capture all.
Captured(p, accounts) ==
    \/ cfg.capture = <<>>
    \/ \E i \in DOMAIN cfg.capture :
          SomeTerm(cfg.capture[i].terms, LAMBDA c : CaptureHolds(c, p, accounts))

\* "Ordered first-match rules", user_only before them.
Kept(ev) ==
    LET fits == {i \in DOMAIN cfg.filter :
                    SomeTerm(cfg.filter[i].terms, LAMBDA c : QueryHolds(c, ev))}
    IN  /\ cfg.userOnly = "true" => ev.source = <<"user">>
        /\ IF fits = {} THEN cfg.default = "allow"
           ELSE \E i \in fits : cfg.filter[i].sign = <<"+">> /\ \A j \in fits : i <= j

ReadableRules ==
    /\ \A i \in DOMAIN cfg.filter :
          /\ cfg.filter[i].sign \in {<<"+">>, <<"-">>}
          /\ \A c \in ClausesOf(cfg.filter[i].terms) : ReadsAsQuery(c)
    /\ \A i \in DOMAIN cfg.capture :
          /\ cfg.capture[i].sign = <<"+">>
          /\ \A c \in ClausesOf(cfg.capture[i].terms) : ReadsAsCapture(c)
    /\ Cardinality({<<c.key, c.val>> : c \in {c \in
           UNION {ClausesOf(cfg.capture[i].terms) : i \in DOMAIN cfg.capture} :
               c.key \in {<<"user">>, <<"group">>}}}) <= IdentityMax

PlainRules == \A i \in DOMAIN cfg.filter   : Plain(cfg.filter[i].terms)

\* In a capture rule only an "=" behind "!", "<", ">" or the operator makes another
\* operator of the text.
PlainCapture ==
    \A i \in DOMAIN cfg.capture : \A c \in ClausesOf(cfg.capture[i].terms) :
        \A k \in DOMAIN c.val :
            c.val[k] = "=" => k > 1 /\ c.val[k - 1] \notin {"!", "<", ">"}

\* precd starts just when every rule reads as the README's tables say, and then
\* records the calls they describe and no other: the capture rules of the process
\* and the accounts as they are, the filter rules in the order of the files.  A
\* filter rule with characters of operators in a value may be refused though it
\* reads well, a capture rule only when another operator appears in its text.
AsConfigured ==
    /\ stage = "refused" => ~(ReadableRules /\ PlainRules /\ PlainCapture)
    /\ stage = "running" /\ PlainRules /\ PlainCapture => ReadableRules
    /\ stage \in {"logged", "dropped"} /\ ReadableRules =>
          /\ (record # <<>>) = Captured(proc, known)
          /\ (stage = "logged") = (record # <<>> /\ Kept(record))

RecordedAsConfigured == [][stage' # stage => AsConfigured']_path

\* prec shows a record just when its flags and queries ask for it, be it joined
\* with its end or not: what the README says, of the command as it stands in the
\* whole log.  Only queries the README does not allow, or with operator characters
\* in a value, are refused.
AsAsked ==
    LET asked    == flags.query
        readable == \A q \in DOMAIN asked : \A c \in ClausesOf(asked[q]) : ReadsAsQuery(c)
        plain    == \A q \in DOMAIN asked : Plain(asked[q])
        byType   == \E q \in DOMAIN asked : \E c \in ClausesOf(asked[q]) :
                       c.key = <<"record_type">>
        types    == {<<"proc_command">>, <<"proc_fail">>, <<"proc_loss">>}
                    \cup (IF flags.fileEvents THEN {<<"file_save">>} ELSE {})
    IN  /\ answer = "usage" => ~(readable /\ plain)
        /\ answer = "ready" /\ plain => readable
        /\ answer \in {"shown", "hidden"} /\ readable =>
              LET row == Joined(record, life) IN
              ((answer = "shown") =
                  /\ flags.source = "any" \/ row.source = <<flags.source>>
                  /\ row.record_type \in types \/ (flags.fileEvents /\ byType)
                  /\ \A q \in DOMAIN asked : SomeTerm(asked[q], LAMBDA c : QueryHolds(c, row)))

ShownAsAsked == [][answer' # answer => AsAsked']_path
=============================================================================
