------------------------------ MODULE KeyValue ------------------------------
(* Files of key=value lines, as src/src/config.c and                         *)
(* src/overlay/ProcessedAssets.cpp read them.  Of the text of a line is kept *)
(* what the readers tell apart: whether it is empty or a comment, whether it *)
(* can be split, its key, and whether and as which number its value parses.  *)
EXTENDS Integers, Sequences

Line ==
    [kind : {"blank",      \* empty, or a comment
             "malformed",  \* too long, without =, or with nothing on one side
             "entry"},
     key : STRING,
     parses : BOOLEAN,     \* the value is one the parser of its key takes
     value : Int]          \* the number it stands for

IsEntry(l, keys) == l.kind = "entry" /\ l.key \in keys

\* The keys, among those that count, met in the first n lines of a file.
Met(file, n, keys) ==
    {file[i].key : i \in {j \in 1..n : IsEntry(file[j], keys)}}

\* The first n lines are what a file should be: every line can be split, the
\* entries of the keys that count are good, and none of these keys comes twice.
WellFormed(file, n, keys, Good(_)) ==
    \A i \in 1..n :
        /\ file[i].kind # "malformed"
        /\ IsEntry(file[i], keys) =>
               /\ Good(file[i])
               /\ \A j \in 1..(i - 1) :
                      IsEntry(file[j], keys) => file[j].key # file[i].key

=============================================================================
