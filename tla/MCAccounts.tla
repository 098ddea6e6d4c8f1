----------------------------- MODULE MCAccounts -----------------------------
(* Accounts for TLC: an administrator a and a user b, who may be a teacher. *)
EXTENDS Accounts, TLC

CONSTANTS t1, t2, f1, f2, a, b, p1, p2, boss, none

OneWorker == {t1}
TwoWorkers == {t1, t2}
TwoDevices == {f1, f2}
MCTyped == {a, b}
MCKey == {a, b, Empty}
OneName == {a}
OneKey == {a, Empty}
OnePassword == {p1}
TwoPasswords == {p1, p2}
TwoIdentities == {Admin, Teacher}
AllIdentities == {Admin, RuleMaker, Teacher}
\* A password with an apostrophe in it.
Quote == {p1}
MCBad == {boss}
Nothing == {}
ValOf(passwords, identities) == [pw : passwords, id : identities, active : BOOLEAN]
Val1 == ValOf(OnePassword, TwoIdentities)
Val2 == ValOf(TwoPasswords, TwoIdentities)
Val3 == ValOf(OnePassword, AllIdentities \cup MCBad)
Refused3 == {v \in Val3 : v.id \in MCBad}

User(p, i) == [pw |-> p, id |-> i, active |-> FALSE]
\* The file that somebody set up: one account, or an administrator a and b.
FileOf(keys, rows) == [k \in keys |-> IF k \in DOMAIN rows THEN rows[k] ELSE none]
OneAccount == {FileOf(OneKey, a :> User(p1, i)) : i \in TwoIdentities}
OneAdmin == {FileOf(OneKey, a :> User(p1, Admin))}
TwoAccounts == {FileOf(MCKey, a :> User(p1, Admin) @@ b :> User(p1, Teacher))}
WithRuleMaker == {FileOf(MCKey, a :> User(p1, Admin) @@ b :> User(p1, RuleMaker))}

NoReads == Commands \ {"get users", "get teachers"}
Logins == {"login"}
LockCommands == {"login", "logout", "register"}

Symmetry == Permutations(TwoWorkers) \cup Permutations(TwoDevices)
=============================================================================
