---------------------------- MODULE CaptureProgram ----------------------------
(***************************************************************************)
(* The capture_filter of precd as it runs in the kernel:                   *)
(* capture_filter_linux.go compiles the rules into a policy and the policy *)
(* into eBPF instructions, which every traced call of a process executes.  *)
(* The instructions are those of guardInstructions, on registers of twice  *)
(* an id's width; what they read of the process are the results of the     *)
(* kernel's helpers.                                                       *)
(***************************************************************************)
EXTENDS QueryFilter

CONSTANTS
    IdBits,      \* bits of a uid, gid or pid
    CommWords,   \* command name -> its two words
    TooLong,     \* values of more than 15 characters
    IdentityMax  \* captureIdentityMax

ASSUME CaptureAssumption ==
    /\ IdBits \in Nat \ {0}
    /\ IdentityMax \in Nat

VARIABLES
    program, \* the guard's instructions
    proc,    \* the process whose call is looked at
    snapshot,\* the ids of the policy's names, read once (R5)
    ip,      \* the next instruction, 0 when none is running
    r0, r9,  \* registers
    verdict  \* "none", "allow" or "drop"

machine == <<program, proc, snapshot, ip, r0, r9, verdict>>

Id    == 2 ^ IdBits
Word2 == Id * Id

\* The value of a name nobody has: no id is as large.
MaxWord == Word2 - 1

-----------------------------------------------------------------------------
(* compileCaptureFilter.                                                   *)

CaptureOperators ==
    << <<"!", "=">>, <<">", "=">>, <<"<", "=">>, <<"=">>, <<">">>, <<"<">>, <<"~", "=">>,
       <<"!", "~", "=">> >>

\* parseCaptureClause
ParseCapture(text) == ClauseOf(CaptureOperators, text)

\* A name is what is behind the operator, characters of operators included.
IsCaptureClause(c) ==
    /\ c.val # <<>>
    /\ \/ /\ c.key \in {"uid", "gid", "pid"}
          /\ c.op \in Ordering
          /\ Len(c.val) = 1 /\ c.val[1] \in DOMAIN NumberOf
       \/ c.key \in {"user", "group"} /\ c.op \in {<<"=">>, <<"!", "=">>}
       \/ c.key = "comm" /\ c.op \in {<<"=">>, <<"!", "=">>} /\ c.val \notin TooLong

Named(c) == c.key \in {"user", "group"}

\* Names are numbered in order, each once.
IdentitiesOf(terms) ==
    LET identity(c) == [key |-> c.key, name |-> c.val]
        add(ids, c) == IF identity(c) \in ToSet(ids) THEN ids ELSE Append(ids, identity(c))
    IN  FoldLeft(add, <<>>, SelectSeq(FlattenSeq(terms), Named))

\* Every term of every rule is a rule of the policy.
CompileCaptureFilter(rules) ==
    LET policy(terms) ==
            IF /\ \A i \in DOMAIN rules : Len(rules[i]) > 1 /\ rules[i][1] = "+"
               /\ ForAllClauses(terms, IsCaptureClause)
               /\ Len(IdentitiesOf(terms)) <= IdentityMax
            THEN [ok |-> TRUE, rules |-> terms, identities |-> IdentitiesOf(terms)]
            ELSE [ok |-> FALSE]
    IN  policy(FlattenSeq([i \in DOMAIN rules |-> MapClauses(Clauses(Tail(rules[i])), ParseCapture)]))

-----------------------------------------------------------------------------
(* guardInstructions.                                                      *)

\* captureFieldValueInstructions: R7 is the gid above the uid, R8 the process id
\* above the thread's.
FieldValue_Uid64(key) ==
    IF key \in {"gid", "group"} THEN << <<"mov", "r7">>, <<"rsh">> >>
    ELSE IF key = "pid"         THEN << <<"mov", "r8">>, <<"rsh">> >>
    ELSE << <<"mov", "r7">> >>

FieldValue(key) ==
    IF key \in {"gid", "group"} THEN << <<"mov", "r7">>, <<"rsh">> >>
    ELSE IF key = "pid"         THEN << <<"mov", "r8">>, <<"rsh">> >>
    ELSE << <<"mov", "r7">>, <<"lsh">>, <<"rsh">> >>

\* The jump that leaves a term whose clause is false.
JumpUnless ==
    (<<"=">> :> "jne") @@ (<<"!", "=">> :> "jeq") @@ (<<">">> :> "jle") @@
    (<<">", "=">> :> "jlt") @@ (<<"<">> :> "jge") @@ (<<"<", "=">> :> "jgt")

CommClause(c, false, pass) ==
    LET words == CommWords[c.val] IN
    IF c.op = <<"=">>
    THEN << <<"comm", 1>>, <<"imm", words[1]>>, <<"jne", false>>,
            <<"comm", 2>>, <<"imm", words[2]>>, <<"jne", false>> >>
    ELSE << <<"comm", 1>>, <<"imm", words[1]>>, <<"jne", pass>>,
            <<"comm", 2>>, <<"imm", words[2]>>, <<"jeq", false>>, <<"label", pass>> >>

ClauseInstructions(policy, c, false, pass) ==
    IF c.key = "comm" THEN CommClause(c, false, pass)
    ELSE FieldValue(c.key)
         \o << IF Named(c)
               THEN <<"map", CHOOSE i \in DOMAIN policy.identities :
                                policy.identities[i] = [key |-> c.key, name |-> c.val]>>
               ELSE <<"imm", NumberOf[c.val[1]]>>,
               <<JumpUnless[c.op], false>> >>

GuardInstructions(policy) ==
    LET rule(r) ==
            FlattenSeq([c \in DOMAIN policy.rules[r] |->
                ClauseInstructions(policy, policy.rules[r][c], <<"next", r, 0>>, <<"pass", r, c>>)])
            \o << <<"ja", <<"allow", 0, 0>> >>, <<"label", <<"next", r, 0>> >> >>
    IN  FlattenSeq([r \in DOMAIN policy.rules |-> rule(r)]) \o << <<"ja", <<"drop", 0, 0>> >> >>

-----------------------------------------------------------------------------
(* The kernel executes them (external).                                    *)

R7 == proc.gid * Id + proc.uid
R8 == proc.pid * Id + proc.tid

Instruction == program[ip]

\* A call of process p; without rules there is no guard.
Call(p, ids) ==
    /\ ip = 0
    /\ verdict = "none"
    /\ proc' = p
    /\ snapshot' = ids
    /\ IF program = <<>> THEN verdict' = "allow" /\ UNCHANGED ip
       ELSE ip' = 1 /\ UNCHANGED verdict
    /\ UNCHANGED <<program, r0, r9>>

Assign ==
    /\ ip # 0
    /\ Instruction[1] \in {"mov", "lsh", "rsh", "imm", "map", "comm", "label"}
    /\ r9' = CASE Instruction[1] = "mov"  -> IF Instruction[2] = "r7" THEN R7 ELSE R8
               [] Instruction[1] = "lsh"  -> (r9 * Id) % Word2
               [] Instruction[1] = "rsh"  -> r9 \div Id
               [] Instruction[1] = "comm" -> CommWords[proc.comm][Instruction[2]]
               [] OTHER                   -> r9
    /\ r0' = CASE Instruction[1] = "imm"   -> Instruction[2]
               [] Instruction[1] = "map"   -> snapshot[Instruction[2]]
               [] Instruction[1] = "label" -> 0
               [] OTHER                    -> r0
    /\ ip' = ip + 1
    /\ UNCHANGED <<program, proc, snapshot, verdict>>

Jumps ==
    CASE Instruction[1] = "ja"  -> TRUE
      [] Instruction[1] = "jeq" -> r9 = r0
      [] Instruction[1] = "jne" -> r9 # r0
      [] Instruction[1] = "jle" -> r9 <= r0
      [] Instruction[1] = "jlt" -> r9 < r0
      [] Instruction[1] = "jge" -> r9 >= r0
      [] Instruction[1] = "jgt" -> r9 > r0

Jump ==
    /\ ip # 0
    /\ Instruction[1] \in {"ja", "jeq", "jne", "jle", "jlt", "jge", "jgt"}
    /\ IF ~Jumps THEN ip' = ip + 1 /\ UNCHANGED verdict
       ELSE IF Instruction[2][1] \in {"allow", "drop"}
       THEN ip' = 0 /\ verdict' = Instruction[2][1]
       ELSE /\ ip' = CHOOSE i \in DOMAIN program : program[i] = <<"label", Instruction[2]>>
            /\ UNCHANGED verdict
    /\ UNCHANGED <<program, proc, snapshot, r0, r9>>

Execute == Assign \/ Jump
=============================================================================
