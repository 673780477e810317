-------------------------- MODULE MCCustomerRegistry --------------------------
(***************************************************************************)
(* Small instances of CustomerRegistry for TLC.                            *)
(***************************************************************************)
EXTENDS CustomerRegistry, TLC

CONSTANTS A, B

\* Of the first customer of the tests: as it is stored, as people write it, and with
\* a digit wrong.
Cpf == <<1, 1, 1, 4, 4, 4, 7, 7, 7, 3, 5>>
CpfPunctuated == <<1, 1, 1, Other, 4, 4, 4, Other, 7, 7, 7, Other, 3, 5>>
CpfWrong == <<1, 1, 1, 4, 4, 4, 7, 7, 7, 3, 6>>

Cnpj == <<1, 1, 2, 2, 2, 3, 3, 3, 0, 0, 0, 1, 8, 1>>

MCDocuments ==
    {[type |-> "CPF", text |-> text] : text \in {Cpf, CpfPunctuated, CpfWrong}}
        \cup {[type |-> "CNPJ", text |-> Cnpj]}

Hyphenated == <<"letter", "letter", "letter", "hyphen", "digit", "digit", "digit", "digit">>

MCPlates == {[plate |-> A, classes |-> Traditional],
             [plate |-> A, classes |-> Hyphenated],
             [plate |-> B, classes |-> Mercosul]}

Symmetry == Permutations(Requests) \cup Permutations(Customers) \cup Permutations(Vehicles)
=============================================================================
