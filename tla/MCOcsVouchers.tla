--------------------------- MODULE MCOcsVouchers ---------------------------
(* Small instances of OcsVouchers for TLC. *)
EXTENDS OcsVouchers, TLC

CONSTANTS i1, o1, o3

\* The import that is not i1 sends the longer voucher; o1 has the shorter name.
UnequalBodies == [r \in Imports |-> IF r = i1 THEN 1 ELSE 2]
UnequalOrgs   == [o \in Orgs |-> IF o = o1 THEN 1 ELSE 2]

\* With equal lengths imports, and organisations, are interchangeable.
EqualBodies == [r \in Imports |-> 1]
EqualOrgs   == [o \in Orgs |-> 1]

\* No mixture of names is a name.
PlainNames ==
    [S \in SUBSET Orgs |-> IF Cardinality(S) = 1 THEN CHOOSE o \in S : TRUE ELSE None]

\* o1 is 'org1' and o3 is 'org10': the name of o1 over 'org20', or over that of o3, reads 'org10'.
MixingNames ==
    [S \in SUBSET Orgs |->
        IF Cardinality(S) = 1 THEN CHOOSE o \in S : TRUE
        ELSE IF Cardinality(S) = 2 /\ o1 \in S THEN o3
        ELSE None]

ImportSymmetry == Permutations(Imports)
FullSymmetry   == Permutations(Imports) \cup Permutations(Orgs) \cup Permutations(Devices)
=============================================================================
