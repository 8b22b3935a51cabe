------------------------------ MODULE LogStream ------------------------------
(***************************************************************************)
(* What prec --follow promises of the log it follows, whatever is done to  *)
(* the files the log is kept in: the records are numbered as they are      *)
(* written, each into one generation of the log (a file, or what is behind *)
(* a truncation of it), and a reader shows some of them, none twice and    *)
(* none behind a newer one - unless a reader of the next generation may    *)
(* overtake it.                                                            *)
(***************************************************************************)
EXTENDS Naturals, Sequences

CONSTANT Generations \* numbers of generations

VARIABLES
    gens,    \* the generation of every record written
    shown,   \* numbers of the records shown, in order
    overtake \* whether a reader of a later generation may overtake

stream == <<gens, shown, overtake>>

TypeOK ==
    /\ gens \in Seq(Generations)
    /\ shown \in Seq(DOMAIN gens)
    /\ overtake \in BOOLEAN

Init ==
    /\ gens = <<>>
    /\ shown = <<>>
    /\ overtake \in BOOLEAN

\* The writer never goes back to a generation.
Write(g) ==
    /\ \A r \in DOMAIN gens : gens[r] <= g
    /\ gens' = Append(gens, g)
    /\ UNCHANGED <<shown, overtake>>

Show(r) ==
    /\ \A i \in DOMAIN shown :
          shown[i] < r \/ (overtake /\ r < shown[i] /\ gens[r] < gens[shown[i]])
    /\ shown' = Append(shown, r)
    /\ UNCHANGED <<gens, overtake>>

Next ==
    \/ \E g \in Generations : Write(g)
    \/ \E r \in DOMAIN gens : Show(r)

Spec == Init /\ [][Next]_stream
=============================================================================
