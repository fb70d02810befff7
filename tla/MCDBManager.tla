----------------------------- MODULE MCDBManager -----------------------------
(* Small instances of DBManager. *)
EXTENDS DBManager

CONSTANTS p1, p2, aapl, fb

TwoProcs == {p1, p2}
TwoSymbols == {aapl, fb}

\* dbVersion is 1: no file, a file of this version, and of a neighbouring one.
Version == 1
SameVersion == {NoFile, Version}
AnyVersion == {NoFile, 0, Version, 2}

\* Two workers share a file of this version and are killed and restarted.
Shared == [procs : {TwoProcs}, symbols : {TwoSymbols}, found : SameVersion,
                   contention : {FALSE}, crashes : {TRUE}, maxPrices : {3}]
\* One worker opens a file of any version.
Single == [procs : {{p1}}, symbols : {TwoSymbols}, found : AnyVersion,
           contention : {FALSE}, crashes : {FALSE}, maxPrices : {4}]
\* Statements of two workers lock each other out.
Contended == [procs : {TwoProcs}, symbols : {{aapl}}, found : AnyVersion,
              contention : {TRUE}, crashes : {TRUE}, maxPrices : {1}]
\* One worker resets a file and may be killed meanwhile.
ResetSettings == [procs : {{p1}}, symbols : {TwoSymbols}, found : AnyVersion,
                  contention : {FALSE}, crashes : {TRUE}, maxPrices : {3}]

AllSettings == Shared \cup Single \cup Contended

=============================================================================
