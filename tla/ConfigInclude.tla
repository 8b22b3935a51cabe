---------------------------- MODULE ConfigInclude ----------------------------
(***************************************************************************)
(* How precd loads its configuration: Load of config.go and loadConfig of  *)
(* include.go.  A file is applied, then the files its include pattern      *)
(* matches, each with its own includes, in lexical order; rules append,    *)
(* scalars override.  The recursion is a stack of the files whose includes *)
(* are being loaded.                                                       *)
(***************************************************************************)
EXTENDS Integers, Sequences, FiniteSets, SequencesExt

CONSTANTS
    Files, \* number of paths, which are numbered in lexical order
    Root,  \* the path of the main file
    Disks  \* what the paths may hold: functions from ConfigPaths to files

ConfigPaths == 1 .. Files

\* A path names nothing, a link to nothing, or a file: ids are inodes (a path may
\* be a link to the file of another), a file need not be TOML, the include pattern
\* matches some paths, and a scalar that may be omitted is a set of at most one.
Nothing   == [id |-> 0]
Dangling  == [id |-> -1]
IsFile(f) == f.id > 0

ASSUME ConfigAssumption ==
    /\ Files \in Nat
    /\ Root \in ConfigPaths
    /\ \A d \in Disks, p \in ConfigPaths : IsFile(d[p]) => d[p].include \subseteq ConfigPaths

VARIABLES
    disk,    \* the files, fixed while they are read
    stack,   \* files being loaded, each with the matches still to load
    cfg,     \* the settings so far
    levelDefined, \* compressLevelDefined
    loading  \* "no", "yes", "done" or "failed"

config == <<disk, stack, cfg, levelDefined, loading>>

\* Default
DefaultConfig ==
    [filter |-> <<>>, capture |-> <<>>, compress |-> "zstd", level |-> 3,
     default |-> "allow", userOnly |-> "false"]

ConfigInit ==
    /\ disk \in Disks
    /\ stack = <<>>
    /\ cfg = DefaultConfig
    /\ levelDefined = FALSE
    /\ loading = "no"

-----------------------------------------------------------------------------

Given(old, new) == IF new = {} THEN old ELSE CHOOSE v \in new : TRUE

\* toml.Decode over the settings so far; the rules apart.
Decode_OwnRules(file) ==
    [filter   |-> IF file.filter = <<>> THEN cfg.filter ELSE file.filter,
     capture  |-> IF file.capture = <<>> THEN cfg.capture ELSE file.capture,
     compress |-> Given(cfg.compress, file.compress),
     level    |-> Given(cfg.level, file.level),
     default  |-> Given(cfg.default, file.default),
     userOnly |-> Given(cfg.userOnly, file.userOnly)]

Decode(file) ==
    [filter   |-> cfg.filter \o file.filter,
     capture  |-> cfg.capture \o file.capture,
     compress |-> Given(cfg.compress, file.compress),
     level    |-> Given(cfg.level, file.level),
     default  |-> Given(cfg.default, file.default),
     userOnly |-> Given(cfg.userOnly, file.userOnly)]

Parents == {stack[i].id : i \in DOMAIN stack}

\* filepath.Glob: the names that match, those of dangling links too, in order.
Matches(file) ==
    SelectSeq([p \in ConfigPaths |-> p], LAMBDA p : p \in file.include /\ disk[p] # Nothing)

\* loadConfig as far as its loop over the included files, called from a loop
\* whose stack is `below'.
Apply(p, below) ==
    LET file == disk[p] IN
    IF IsFile(file) /\ file.id \notin Parents /\ file.valid
    THEN /\ cfg' = Decode(file)
         /\ levelDefined' = (levelDefined \/ file.level # {})
         /\ stack' = Append(below, [id |-> file.id, todo |-> Matches(file)])
         /\ loading' = "yes"
    ELSE /\ loading' = "failed"
         /\ UNCHANGED <<cfg, levelDefined, stack>>

\* Load: no main file, or a link to none, is no error.
LoadRoot ==
    /\ loading = "no"
    /\ UNCHANGED disk
    /\ IF ~IsFile(disk[Root])
       THEN loading' = "done" /\ UNCHANGED <<stack, cfg, levelDefined>>
       ELSE Apply(Root, <<>>)

Top == stack[Len(stack)]

\* The next match; its file is compared with those of the loops around it.
LoadNext ==
    /\ loading = "yes"
    /\ stack # <<>>
    /\ Top.todo # <<>>
    /\ Apply(Head(Top.todo), [stack EXCEPT ![Len(stack)].todo = Tail(@)])
    /\ UNCHANGED disk

LoadReturns ==
    /\ loading = "yes"
    /\ stack # <<>>
    /\ Top.todo = <<>>
    /\ stack' = Front(stack)
    /\ UNCHANGED <<disk, cfg, levelDefined, loading>>

DefaultLevel(compress) == CASE compress = "gz" -> -1 [] compress = "zstd" -> 3 [] OTHER -> 0

\* validateCompression, validateFilterDefault
ValidConfig(c) ==
    /\ c.default \in {"allow", "deny"}
    /\ \/ c.compress = "no"
       \/ c.compress = "gz" /\ c.level \in -3 .. 9
       \/ c.compress = "zstd" /\ c.level \in 1 .. 22

\* The rest of Load: defaults and validation, over the merged settings.
Merged ==
    IF levelDefined THEN cfg ELSE [cfg EXCEPT !.level = DefaultLevel(cfg.compress)]

Finish ==
    /\ loading = "yes"
    /\ stack = <<>>
    /\ cfg' = Merged
    /\ loading' = IF ValidConfig(Merged) THEN "done" ELSE "failed"
    /\ UNCHANGED <<disk, stack, levelDefined>>

ConfigNext == LoadRoot \/ LoadNext \/ LoadReturns \/ Finish

-----------------------------------------------------------------------------
(* What the README says of includes ("Load behavior"), over the chains of  *)
(* includes from the main file.                                            *)

Includes(p) == IF IsFile(disk[p]) /\ disk[p].valid
               THEN {q \in disk[p].include : disk[q] # Nothing} ELSE {}

\* Long enough for every circle to close.
Chains ==
    LET longer(C) == UNION {{Append(c, q) : q \in Includes(c[Len(c)])} : c \in C}
        of[n \in 1 .. Files + 1] == IF n = 1 THEN {<<Root>>} ELSE longer(of[n - 1])
    IN  UNION {of[n] : n \in DOMAIN of}

FileOf(c) == disk[c[Len(c)]]

Circular(c) == \E i, j \in DOMAIN c : i # j /\ disk[c[i]].id = disk[c[j]].id

\* A file before its includes, which are in lexical order.
Before(c, d) ==
    \/ IsStrictPrefix(c, d)
    \/ \E i \in DOMAIN c \cap DOMAIN d :
          c[i] < d[i] /\ \A j \in 1 .. i - 1 : c[j] = d[j]

\* The files in the order the README gives them.
LoadOrder ==
    LET all == Chains
    IN  [n \in 1 .. Cardinality(all) |->
            FileOf(CHOOSE c \in all : Cardinality({d \in all : Before(d, c)}) = n - 1)]

\* "Later scalar values win"; "Compression defaults and validation are applied
\* after all files are merged".
LastOf(values) ==
    LET given == {i \in DOMAIN values : values[i] # {}}
    IN  IF given = {} THEN {} ELSE values[CHOOSE i \in given : \A j \in given : j <= i]

Intended ==
    LET order       == LoadOrder
        scalar(key) == LastOf([i \in DOMAIN order |-> order[i][key]])
        compress    == Given("zstd", scalar("compress"))
    IN  [filter   |-> FlattenSeq([i \in DOMAIN order |-> order[i].filter]),
         capture  |-> FlattenSeq([i \in DOMAIN order |-> order[i].capture]),
         compress |-> compress,
         level    |-> Given(DefaultLevel(compress), scalar("level")),
         default  |-> Given("allow", scalar("default")),
         userOnly |-> Given("false", scalar("userOnly"))]

\* "Invalid patterns, unreadable or malformed files, and include cycles fail
\* loading."
Loads ==
    /\ \A c \in Chains : IsFile(FileOf(c)) /\ FileOf(c).valid /\ ~Circular(c)
    /\ ValidConfig(Intended)

AsWritten ==
    /\ loading = "done" => IF IsFile(disk[Root]) THEN Loads /\ cfg = Intended
                           ELSE cfg = DefaultConfig
    /\ loading = "failed" => ~Loads

\* When loading is over the settings are those of the README's rules, and it has
\* failed just when they say so: circles of files are found through links too, and
\* a file that is included twice but not by itself is no circle.
LoadedAsWritten == [][loading' # loading => AsWritten']_config
=============================================================================
