----------------------------- MODULE QueryFilter -----------------------------
(***************************************************************************)
(* The query language of prec and of the rules of precd's filter:          *)
(* query/filter.go, the rule list of filter/filter.go and the queries that *)
(* app.go puts before the user's own.  A text is a sequence of tokens:     *)
(* words, the characters operators are made of, "&&" and "||"; blanks      *)
(* between them are left out.  A number or time of an event is a set of at  *)
(* most one value, empty where it is missing.                              *)
(***************************************************************************)
EXTENDS Integers, Sequences, FiniteSets, SequencesExt

-----------------------------------------------------------------------------
(* Texts.                                                                  *)

\* operators, in the order they are tried
Operators ==
    << <<"!", "~", "=">>, <<">", "=">>, <<"<", "=">>, <<"!", "=">>, <<"~", "=">>, <<">">>,
       <<"<">>, <<"=">> >>

IsAt(text, part, i) == i + Len(part) - 1 <= Len(text) /\ SubSeq(text, i, i + Len(part) - 1) = part

FirstOf(S) == IF S = {} THEN 0 ELSE Min(S)

\* strings.Index + 1, 0 for none
Index(text, part) == FirstOf({i \in DOMAIN text : IsAt(text, part, i)})

HasPart(text, part) == part = <<>> \/ Index(text, part) > 0

\* findOperator: the first of the list that is in the text, but not at its start.
FindOperator(operators, text) ==
    FirstOf({k \in DOMAIN operators : Index(text, operators[k]) > 1})

\* The parts of a text between delimiters.
Parts(text, at) == [k \in 1 .. Len(at) - 1 |-> SubSeq(text, at[k] + 1, at[k + 1] - 1)]

Split(text, delimiter) ==
    Parts(text, <<0>> \o SelectSeq([i \in DOMAIN text |-> i], LAMBDA i : text[i] = delimiter)
                \o <<Len(text) + 1>>)

\* The clauses of the terms of a text; empty ones are refused as clauses.
Clauses(text) ==
    LET each(terms) == [t \in DOMAIN terms |-> Split(terms[t], "&&")]
    IN  each(Split(text, "||"))

ForAllClauses(terms, test(_)) == \A t \in DOMAIN terms : \A c \in DOMAIN terms[t] : test(terms[t][c])

MapClauses(terms, of(_)) == [t \in DOMAIN terms |-> [c \in DOMAIN terms[t] |-> of(terms[t][c])]]

-----------------------------------------------------------------------------
(* Clauses.                                                                *)

NumberOf == [n \in {"0", "1", "2", "3"} |->
                CASE n = "0" -> 0 [] n = "1" -> 1 [] n = "2" -> 2 [] OTHER -> 3]

RecordTypes == {"proc_command", "proc_fail", "proc_loss", "file_open", "file_save"}

\* fieldTypeFor.  The fields stand for those of their kind: a number every record
\* has, one that some have, one that ends bring.
FieldType ==
    [key \in {"uid", "auid", "exit_status", "timestamp", "end_timestamp", "duration",
              "argv", "user", "comm", "source", "record_type"} |->
        CASE key \in {"uid", "auid", "exit_status"} -> "number"
          [] key \in {"timestamp", "end_timestamp"} -> "time"
          [] key = "duration" -> "duration"
          [] key = "argv" -> "array"
          [] OTHER -> "string"]

\* isFinalizedOnlyField, and durations
FinalizedOnly_Status == {"exit_status", "duration"}

FinalizedOnly == {"end_timestamp", "exit_status", "duration"}

Ordering == {<<"=">>, <<"!", "=">>, <<">">>, <<">", "=">>, <<"<">>, <<"<", "=">>}
Matching == {<<"=">>, <<"!", "=">>, <<"~", "=">>, <<"!", "~", "=">>}

\* normalizeSourceValue, normalizeRecordTypeValue
IsValue(key, val) ==
    CASE FieldType[key] \in {"number", "time", "duration"} ->
            Len(val) = 1 /\ val[1] \in DOMAIN NumberOf
      [] key = "source"      -> val \in {<<"user">>, <<"system">>}
      [] key = "record_type" -> val \in {<<t>> : t \in RecordTypes}
      [] OTHER -> TRUE

\* parseClause; clauseHasKey looks at the key alone.
NoClause == [key |-> "", op |-> <<>>, val |-> <<>>]

CutAt(text, pos, op) ==
    [key |-> IF pos = 2 THEN text[1] ELSE "", op |-> op,
     val |-> SubSeq(text, pos + Len(op), Len(text))]

ClauseOf(operators, text) ==
    LET by(k) == IF k = 0 THEN NoClause
                 ELSE CutAt(text, Index(text, operators[k]), operators[k])
    IN  by(FindOperator(operators, text))

Parse(text) == ClauseOf(Operators, text)

IsClause(c) ==
    /\ c.op # <<>>
    /\ c.val # <<>>
    /\ c.key \in DOMAIN FieldType
    /\ c.op \in (IF FieldType[c.key] \in {"string", "array"} THEN Matching ELSE Ordering)
    /\ IsValue(c.key, c.val)

\* compareInt64, compareTime, compareString
Compare(left, op, right) ==
    CASE op = <<"=">>            -> left = right
      [] op = <<"!", "=">>       -> left # right
      [] op = <<">">>            -> left > right
      [] op = <<">", "=">>       -> left >= right
      [] op = <<"<">>            -> left < right
      [] op = <<"<", "=">>       -> left <= right
      [] op = <<"~", "=">>       -> HasPart(left, right)
      [] op = <<"!", "~", "=">>  -> ~HasPart(left, right)

\* A value that is missing never matches, not even "!=".
MatchesClause_NilDiffers(c, ev) ==
    IF FieldType[c.key] \in {"string", "array"} THEN Compare(ev[c.key], c.op, c.val)
    ELSE \/ ev[c.key] = {} /\ c.op = <<"!", "=">>
         \/ \E left \in ev[c.key] : Compare(left, c.op, NumberOf[c.val[1]])

MatchesClause(c, ev) ==
    IF FieldType[c.key] \in {"string", "array"} THEN Compare(ev[c.key], c.op, c.val)
    ELSE \E left \in ev[c.key] : Compare(left, c.op, NumberOf[c.val[1]])

-----------------------------------------------------------------------------
(* Queries.                                                                *)

\* A spec is an OR of terms, each an AND of clauses: parseSpecExpression.
ParseSpec(text) == MapClauses(Clauses(text), Parse)

\* Build
Build(specs) ==
    LET filter(parsed) ==
            [ok |-> \A s \in DOMAIN parsed : ForAllClauses(parsed[s], IsClause),
             predicates |-> parsed,
             needsFinalizedCommand |->
                 \E s \in DOMAIN parsed :
                     ~ForAllClauses(parsed[s], LAMBDA c : c.key \notin FinalizedOnly)]
    IN  filter([s \in DOMAIN specs |-> ParseSpec(specs[s])])

\* Filter.Match
Match(filter, ev) ==
    \A s \in DOMAIN filter.predicates :
        \E t \in DOMAIN filter.predicates[s] :
            \A c \in DOMAIN filter.predicates[s][t] :
                MatchesClause(filter.predicates[s][t][c], ev)

\* An empty clause makes it no key.
SpecHasKey(text, key) ==
    /\ ForAllClauses(Clauses(text), LAMBDA c : c # <<>>)
    /\ ~ForAllClauses(Clauses(text), LAMBDA c : Parse(c).key # key)

\* effectiveQuerySpecs: the views the flags select come before the user's specs.
Either(key, vals) ==
    [i \in 1 .. 4 * Len(vals) - 1 |->
        CASE i % 4 = 1 -> key [] i % 4 = 2 -> "=" [] i % 4 = 3 -> vals[i \div 4 + 1]
          [] OTHER -> "||"]

ProcessRows == <<"proc_command", "proc_fail", "proc_loss">>

EffectiveQuerySpecs(cli) ==
    LET rows == IF ~cli.fileEvents THEN <<Either("record_type", ProcessRows)>>
                ELSE IF ~\E s \in DOMAIN cli.query : SpecHasKey(cli.query[s], "record_type")
                THEN <<Either("record_type", Append(ProcessRows, "file_save"))>>
                ELSE <<>>
        source == IF cli.source = "any" THEN <<>>
                  ELSE <<Either("source", <<cli.source>>)>>
    IN  source \o rows \o cli.query

-----------------------------------------------------------------------------
(* The filter of precd.                                                    *)

\* compileRule
CompileRule(text) ==
    LET rule(built) == [ok |-> Len(text) > 1 /\ text[1] \in {"+", "-"} /\ built.ok,
                        allow |-> text[1] = "+", filter |-> built]
    IN  rule(Build(<<Tail(text)>>))

NewMatcher(rules, default) ==
    LET matcher(compiled) == [ok |-> \A i \in DOMAIN compiled : compiled[i].ok,
                              rules |-> compiled, defaultAllow |-> default # "deny"]
    IN  matcher([i \in DOMAIN rules |-> CompileRule(rules[i])])

\* Matcher.Match: the first rule that matches decides.
MatcherAllows_LastRule(matcher, userOnly, ev) ==
    LET fits == {i \in DOMAIN matcher.rules : Match(matcher.rules[i].filter, ev)}
    IN  IF userOnly /\ ev.source # <<"user">> THEN FALSE
        ELSE IF fits = {} THEN matcher.defaultAllow
        ELSE matcher.rules[CHOOSE i \in fits : \A j \in fits : j <= i].allow

MatcherAllows(matcher, userOnly, ev) ==
    LET fits == {i \in DOMAIN matcher.rules : Match(matcher.rules[i].filter, ev)}
    IN  IF userOnly /\ ev.source # <<"user">> THEN FALSE
        ELSE IF fits = {} THEN matcher.defaultAllow
        ELSE matcher.rules[CHOOSE i \in fits : \A j \in fits : i <= j].allow
=============================================================================
