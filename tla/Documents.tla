------------------------------ MODULE Documents ------------------------------
(***************************************************************************)
(* The documents and license plates of customer-management: the value      *)
(* objects Document and LicensePlate, which clean what a client types and  *)
(* then judge it, and the validator of documents in common/, written a     *)
(* second time and with another arithmetic.                                *)
(***************************************************************************)
EXTENDS Integers, Sequences

\* A character that is no digit.
Other == -1

Digit == 0 .. 9

IsDigit(character) == character \in Digit

DocumentTypes == {"CPF", "CNPJ"}

\* value.replace(/\D/g, '')
Cleaned(text) == SelectSeq(text, IsDigit)

AllSame(d) == \A i \in 1 .. Len(d) : d[i] = d[1]

-----------------------------------------------------------------------------
(***************************************************************************)
(* The check digits of a CPF: the weights fall from 10, then from 11.      *)
(***************************************************************************)
FirstSum(d) == 10 * d[1] + 9 * d[2] + 8 * d[3] + 7 * d[4] + 6 * d[5] + 5 * d[6]
                + 4 * d[7] + 3 * d[8] + 2 * d[9]

SecondSum(d) == 11 * d[1] + 10 * d[2] + 9 * d[3] + 8 * d[4] + 7 * d[5] + 6 * d[6]
                 + 5 * d[7] + 4 * d[8] + 3 * d[9] + 2 * d[10]

\* The value object subtracts the remainder from 11.
Complement(sum) == LET rev == 11 - (sum % 11)
                   IN  IF rev \in {10, 11} THEN 0 ELSE rev

ValidateCPF(d) ==
    /\ Len(d) = 11 /\ ~AllSame(d)
    /\ d[10] = Complement(FirstSum(d))
    /\ d[11] = Complement(SecondSum(d))

\* The validator of common/ takes the remainder of ten times the sum.
Remainder(sum) == LET remainder == (sum * 10) % 11
                  IN  IF remainder \in {10, 11} THEN 0 ELSE remainder

IsValidCpf(d) ==
    /\ Len(d) = 11 /\ ~AllSame(d)
    /\ d[10] = Remainder(FirstSum(d))
    /\ d[11] = Remainder(SecondSum(d))

-----------------------------------------------------------------------------
(***************************************************************************)
(* The check digits of a CNPJ, the same in both: the weights fall to 2 and *)
(* start again from 9.                                                     *)
(***************************************************************************)
CnpjFirstSum(d) == 5 * d[1] + 4 * d[2] + 3 * d[3] + 2 * d[4] + 9 * d[5] + 8 * d[6]
                    + 7 * d[7] + 6 * d[8] + 5 * d[9] + 4 * d[10] + 3 * d[11] + 2 * d[12]

CnpjSecondSum(d) == 6 * d[1] + 5 * d[2] + 4 * d[3] + 3 * d[4] + 2 * d[5] + 9 * d[6]
                     + 8 * d[7] + 7 * d[8] + 6 * d[9] + 5 * d[10] + 4 * d[11]
                     + 3 * d[12] + 2 * d[13]

CnpjDigit(sum) == IF sum % 11 < 2 THEN 0 ELSE 11 - (sum % 11)

ValidateCNPJ(d) ==
    /\ Len(d) = 14 /\ ~AllSame(d)
    /\ d[13] = CnpjDigit(CnpjFirstSum(d))
    /\ d[14] = CnpjDigit(CnpjSecondSum(d))

\* The constructor of Document throws unless this holds of the cleaned value.
ValidDocument(type, d) ==
    \/ type = "CPF" /\ ValidateCPF(d)
    \/ type = "CNPJ" /\ ValidateCNPJ(d)

\* The validator of CNPJs in common/ runs the same loops.
IsValidCnpj(d) ==
    /\ Len(d) = 14 /\ ~AllSame(d)
    /\ CnpjDigit(CnpjFirstSum(d)) = d[13]
    /\ CnpjDigit(CnpjSecondSum(d)) = d[14]

\* IsValidDocument, for the types a customer may have: it also knows PASSPORT and RNE.
IsValidDocument(type, d) ==
    \/ type = "CPF" /\ IsValidCpf(d)
    \/ type = "CNPJ" /\ IsValidCnpj(d)

-----------------------------------------------------------------------------
(***************************************************************************)
(* License plates, by the class of each character.                         *)
(***************************************************************************)
Traditional == <<"letter", "letter", "letter", "digit", "digit", "digit", "digit">>

Mercosul == <<"letter", "letter", "letter", "digit", "letter", "digit", "digit">>

IsAlphanumeric(class) == class \in {"letter", "digit"}

\* The constructor of LicensePlate throws unless this holds of the typed value.
ValidPlate(classes) == SelectSeq(classes, IsAlphanumeric) \in {Traditional, Mercosul}
=============================================================================
