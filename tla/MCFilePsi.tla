----------------------------- MODULE MCFilePsi -----------------------------
(***************************************************************************)
(* Instances of FilePsi: the direct calls of MCRsPsi, and files of four    *)
(* and five elements: binary elements of two bytes; rows of hexadecimal    *)
(* digits in both cases, rows of other forms, empty rows, a last row with  *)
(* and without its newline, repeated elements; every option that names a   *)
(* wrong size.                                                             *)
(***************************************************************************)
EXTENDS FilePsi, MCRsPsi, FiniteSetsExt

\* Characters: 1 and 2 are digits, 11 and 12 the letter a in both cases.
X == 30
N == 50
MCNewline == N
MCChar == {1, 2, 11, 12, X, N}
MCDigit == [c \in {1, 2, 11, 12} |-> IF c < 11 THEN c ELSE 10]

RecvFiles(ft) ==
  IF ft = "bin" THEN {<<1, 2, 2, 1, 1, 1, 2, 2>>, <<2, 2, X, 2, 2, 2, X, X>>}
  ELSE {<<1, 2, 11, 1, N, X, N, N, 1, 1, 1, 1>>, <<N, 1, 2, 11, 1, N, 1, 2, 12, 1, N, X, 1, N>>}
SendFiles(ft) ==
  IF ft = "bin" THEN {<<2, 2, 1, 1, X, X, X, 1, 1, 2>>, <<1, 2, X, 2, 1, 2, X, 1, 2, 2>>}
  ELSE {<<1, 1, 1, 1, N, X, X, N, 1, 2, 12, 1, N, 1, N, N>>,
        <<X, 1, N, X, N, 1, 2, 11, 1, N, 1, 1, N, X>>}

Wrong == RecvSize + SendSize
None == [r \in Roles |-> Absent]
Right == [r \in Roles |-> IF r = "sender" THEN SendSize ELSE RecvSize]
Claims == {None, Right} \cup {[Right EXCEPT ![r] = Wrong] : r \in Roles}
NoClaims == [r \in Roles |-> None]

Files(ft) == {[r \in Roles |-> IF r = "sender" THEN t ELSE m] : t \in SendFiles(ft), m \in RecvFiles(ft)}
Job(ft, mal_, f, debug, claim, ixs, nosort) ==
  [ft |-> ft, mal |-> mal_, file |-> f, debug |-> debug, claim |-> claim, indexOnly |-> ixs, noSort |-> nosort]
Quiet == [r \in Roles |-> FALSE]
Plain(ft) == CHOOSE f \in Files(ft) : \A r \in Roles : IsInjective(Elements(ft, f[r]))
\* A byte too many at the end of a file.
Odd(f, r) == [f EXCEPT ![r] = Append(@, 1)]

JobsOf(ft) ==
  {Job(ft, FALSE, f, Quiet, NoClaims, i, n) : f \in Files(ft), i \in BOOLEAN, n \in BOOLEAN}
  \cup {Job(ft, TRUE, f, [r \in Roles |-> TRUE], NoClaims, FALSE, FALSE) : f \in Files(ft)}
  \cup {Job(ft, FALSE, Plain(ft), Quiet, [r \in Roles |-> IF r = "sender" THEN c ELSE d], FALSE, FALSE) :
          c \in Claims, d \in Claims}
MCJobs == JobsOf("bin") \cup JobsOf("csv")
          \cup {Job("bin", FALSE, Odd(Plain("bin"), r), Quiet, NoClaims, FALSE, FALSE) : r \in Roles}

\* A row of its own for every element of any file.
AllElements ==
  UNION {UNION {UNION {ToSet(Elements(ft, f[r])) : r \in Roles} : f \in Files(ft)} : ft \in {"bin", "csv"}}
MCOprf ==
  FoldSet(LAMBDA e, acc : acc @@ (e :> LET n == Cardinality(DOMAIN acc) IN Item(n % 3, n \div 3)),
          <<>>, AllElements)
=============================================================================
