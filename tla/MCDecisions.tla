------------------------------ MODULE MCDecisions ------------------------------
(***************************************************************************)
(* Three parts that share no state, in one run of TLC: the path of rules,  *)
(* the loss accounting and the suppression of saves.  A behaviour is one   *)
(* of one part, the others being left as they began.                       *)
(***************************************************************************)
EXTENDS RulePath, LossAccounting, SaveDedup

-----------------------------------------------------------------------------
(* Configurations.  Digits, operators and names are tokens.                *)

Clause(key, op, val) == [key |-> <<key>>, op |-> op, val |-> val]

Is       == <<"=">>
IsNot    == <<"!", "=">>
AtLeast  == <<">", "=">>
Above    == <<">">>
Below    == <<"<">>
AtMost   == <<"<", "=">>
Has      == <<"~", "=">>
HasNot   == <<"!", "~", "=">>

Rule(sign, terms) == [sign |-> <<sign>>, terms |-> terms]
One(sign, key, op, val) == Rule(sign, << <<Clause(key, op, val)>> >>)

File(id, include, filter, capture) ==
    [id |-> id, include |-> include, valid |-> TRUE, filter |-> filter, capture |-> capture,
     compress |-> {}, level |-> {}, default |-> {}, userOnly |-> {}]

NoFiles == [p \in ConfigPaths |-> Nothing]

\* Every graph of includes of three files, the third also a link, a link to
\* nothing, none or no TOML, and scalars in every file.  precd refuses their unsigned
\* rules: only the order is looked at.
Graphs ==
    LET named(i) == One("?", "comm", Is, <<ToString(i)>>)
        one(inc) == [File(1, inc, <<named(1)>>, <<named(1)>>) EXCEPT !.level = {1},
                                                                      !.default = {"deny"}]
        two(inc) == [File(2, inc, <<named(2)>>, <<>>) EXCEPT !.compress = {"gz"},
                                                             !.userOnly = {"true"}]
        three(inc, level) == [File(3, inc, <<named(3), named(4)>>, <<named(3)>>) EXCEPT
                                  !.compress = {"zstd"}, !.level = {level},
                                  !.default = {"allow"}]
        graph(a, b, f) == (1 :> one(a)) @@ (2 :> two(b)) @@ (3 :> f)
        Inc == SUBSET ConfigPaths
    IN  UNION {{graph(a, b, f) :
                   f \in {three(c, level) : c \in Inc, level \in {9, 12, 0}}
                         \cup {one(a), two(b), Dangling, Nothing}
                         \cup {[three({}, 9) EXCEPT !.valid = FALSE]}} :
               a \in Inc, b \in Inc}
        \cup {[NoFiles EXCEPT ![1] = Dangling]}

\* Rules, those of the second file behind those of the first.
Rules(filter1, filter2, capture1, capture2, default, userOnly) ==
    (1 :> [File(1, {2}, filter1, capture1) EXCEPT !.default = default]) @@
    (2 :> [File(2, {}, filter2, capture2) EXCEPT !.userOnly = userOnly]) @@ (3 :> Nothing)

Captures ==
    LET zero   == One("+", "uid", Is, <<"0">>)
        high   == One("+", "gid", AtLeast, <<"1">>)
        low    == One("+", "pid", Below, <<"2">>)
        above  == One("+", "gid", Above, <<"0">>)
        atmost == One("+", "uid", AtMost, <<"1">>)
        web    == One("+", "user", Is, <<"web">>)
        notweb == One("+", "group", IsNot, <<"web">>)
        both   == Rule("+", << <<Clause("user", Is, <<"web">>), Clause("comm", IsNot, <<"ab">>)>>,
                               <<Clause("uid", IsNot, <<"1">>), Clause("comm", Is, <<"ac">>)>> >>)
        third  == Rule("+", << <<Clause("user", Is, <<"web">>)>>, <<Clause("user", Is, <<"db">>)>>,
                               <<Clause("group", Is, <<"db">>)>> >>)
        denies == One("-", "uid", Is, <<"0">>)
        late   == One("+", "exe", Is, <<"ab">>)
        part   == One("+", "comm", Has, <<"ab">>)
        long   == One("+", "comm", Is, <<"long">>)
        odd    == One("+", "comm", Is, <<"ab", ">", "=", "1">>)
        odder  == One("+", "comm", Is, <<"ab", ">", "1">>)
        empty  == Rule("+", << <<Clause("uid", Is, <<"0">>)>>,
                               <<[key |-> <<>>, op |-> <<>>, val |-> <<>>]>> >>)
    IN  {<<zero, high>>, <<low, web>>, <<above, low>>, <<atmost, above>>, <<notweb, zero>>, <<both, low>>, <<third, zero>>,
         <<both, notweb>>, <<denies, zero>>, <<late, zero>>, <<part, zero>>, <<long, zero>>,
         <<odd, zero>>, <<odder, zero>>, <<empty, high>>}

Filters ==
    LET zero   == One("-", "uid", Is, <<"0">>)
        above  == One("-", "uid", Above, <<"1">>)
        atmost == One("+", "auid", AtMost, <<"1">>)
        some   == One("+", "auid", IsNot, <<"1">>)
        file   == One("-", "record_type", Is, <<"file_save">>)
        args   == Rule("+", << <<Clause("argv", Has, <<"x", "y">>), Clause("source", Is, <<"user">>)>>,
                               <<Clause("user", HasNot, <<"web">>), Clause("uid", AtLeast, <<"1">>)>> >>)
        status == One("-", "exit_status", IsNot, <<"1">>)
        odd    == One("+", "argv", Has, <<"x", "=", "y">>)
        odder  == One("+", "argv", Has, <<"x", "!", "=", "y">>)
        bare   == One("uid", "uid", Is, <<"0">>)
        type   == One("+", "record_type", Is, <<"proc_end">>)
        kind   == One("+", "uid", Has, <<"0">>)
    IN  {<<zero, some>>, <<some, zero>>, <<above, atmost>>, <<file, args>>, <<args, zero>>, <<status, file>>,
         <<odd, zero>>, <<odder, zero>>, <<bare, zero>>, <<type, zero>>, <<kind, zero>>}

AllDisks ==
    {NoFiles} \cup Graphs
    \cup {Rules(<<>>, <<>>, <<c[1]>>, <<c[2]>>, {}, {}) : c \in Captures}
    \cup {Rules(<<f[1]>>, <<f[2]>>, <<>>, <<>>, d, u) :
             f \in Filters, d \in {{"allow"}, {"deny"}}, u \in {{}, {"true"}}}

\* All names but the empty one share their first word.
Words == (<<"ab">> :> <<1, 1>>) @@ (<<"ac">> :> <<1, 2>>) @@ (<<"ab", ">", "1">> :> <<1, 3>>) @@
         (<<>> :> <<0, 0>>)

Long == {<<"long">>}

Process(uid, gid, comm, auid, argv, source) ==
    [uid |-> uid, gid |-> gid, pid |-> 1 + uid, tid |-> 2, comm |-> comm,
     user |-> IF uid = 1 THEN "web" ELSE "root", auid |-> auid, argv |-> argv, source |-> source]

Callers ==
    {Process(u, g, c, a, v, s) :
        u \in 0 .. 2, g \in 0 .. 1, c \in {<<"ab">>, <<"ac">>, <<"ab", ">", "1">>}, a \in {{}}, v \in {<<"x", "y">>},
        s \in {"user"}}
    \cup {Process(u, 1, <<"ab">>, a, v, "system") :
             u \in {0, 1}, a \in {{}, {1}}, v \in {<<"x">>, <<"w", "x", "y">>}}

Names == {{}, {[key |-> "user", name |-> <<"web">>, id |-> 1]},
          {[key |-> "user", name |-> <<"web">>, id |-> 0],
           [key |-> "group", name |-> <<"web">>, id |-> 1]}}

Ends == {[end_timestamp |-> {}, exit_status |-> {}, duration |-> {}],
         [end_timestamp |-> {2}, exit_status |-> {0}, duration |-> {1}],
         [end_timestamp |-> {2}, exit_status |-> {}, duration |-> {1}]}

Queries ==
    LET one(key, op, val) == << <<Clause(key, op, val)>> >> IN
    {<<>>, <<one("exit_status", Is, <<"0">>)>>, <<one("duration", AtLeast, <<"1">>)>>,
     <<one("duration", Above, <<"0">>), one("exit_status", AtMost, <<"0">>)>>,
     <<one("end_timestamp", Below, <<"3">>), one("uid", IsNot, <<"2">>)>>,
     <<one("auid", IsNot, <<"1">>)>>, <<one("record_type", Is, <<"file_open">>)>>,
     << << <<Clause("record_type", IsNot, <<"proc_command">>)>>,
           <<Clause("exit_status", IsNot, <<"0">>), Clause("argv", HasNot, <<"w">>)>> >> >>,
     <<one("record_type", Is, <<"proc_start">>)>>, <<one("argv", Is, <<"x", ">", "=", "y">>)>>}

Looks == [fileEvents : BOOLEAN, source : {"user", "any"}, endFields : BOOLEAN, query : Queries]

-----------------------------------------------------------------------------

DecisionsInit == PathInit /\ Init /\ DedupInit

\* The other parts and what prec shows are looked at with one configuration only.
First     == disk = NoFiles
NoRules   == loading = "no" /\ answer = "none"
NoLosses  == action = "log" /\ now = 0 /\ lostTotal = 0 /\ running
NoSaves   == newest = 0

FollowRules ==
    /\ NoLosses
    /\ NoSaves
    /\ \/ PrecdNext
       \/ First /\ loading = "no" /\ Ask
       \/ Look
    /\ UNCHANGED <<vars, dedup>>

AccountLosses == First /\ NoRules /\ NoSaves /\ Next /\ UNCHANGED <<path, dedup>>
JudgeSaves    == First /\ NoRules /\ NoLosses /\ DedupNext /\ UNCHANGED <<path, vars>>

DecisionsNext == FollowRules \/ AccountLosses \/ JudgeSaves

DecisionsSpec == DecisionsInit /\ [][DecisionsNext]_<<path, vars, dedup>>
=============================================================================
