----------------------------- MODULE MCAdminApi -----------------------------
(* Small instances of AdminApi.                                            *)
EXTENDS AdminApi

CONSTANTS root, bob, noText, pw, pwSpaced

MCLogins == {root, bob}

MCTexts == {noText, pw, pwSpaced}

PlainTexts == {noText, pw}

\* " pw " trims to "pw".
MCTrim == [t \in MCTexts |-> IF t = pwSpaced THEN pw ELSE t]

PlainTrim == [t \in PlainTexts |-> t]

\* An update that keeps the password and takes the role, and a new admin or one again.
FewUsers == {[key |-> bob, pw |-> noText, admin |-> FALSE],
             [key |-> bob, pw |-> pw, admin |-> TRUE]}

OneApp == {[key |-> 1, parses |-> TRUE]}

NoApps == {}

NoDavs == {}

Root == [key |-> root, pw |-> HashPassword(pw), admin |-> TRUE]

MCInitial == {[t \in Tables |-> IF t = "users" THEN <<Root>> ELSE <<>>]}

\* A behaviour that was upset in each of the three ways is followed no further.
Bound == Cardinality(upset) <= 2

Symmetry == Permutations(Connections)
=============================================================================
