----------------------------- MODULE Passwords -----------------------------
(***************************************************************************)
(* The password of one account, from its creation on.  Four schemas and a  *)
(* script decide which passwords are taken, and login applies one of the   *)
(* schemas to the password it is given before anybody compares it.  What   *)
(* happens between them, hashing and the table of users, is external.      *)
(***************************************************************************)
EXTENDS Naturals

VARIABLES
    password,    \* the account's password, or NoPassword
    signedIn     \* holds somebody an access token of the account?

passwordVars == <<password, signedIn>>
-----------------------------------------------------------------------------
(* Of a password only its length matters, and whether it has a letter of   *)
(* either case, a digit and another character.  The lengths are those at   *)
(* both sides of every bound.                                              *)
Lengths == {5, 6, 7, 8, 14, 15, 20, 21, 25, 26}
AnyPassword == [length : Lengths, mixed : BOOLEAN]
NoPassword == [length |-> 0, mixed |-> FALSE]

Between(p, low, high) == p.length >= low /\ p.length <= high

(* auth.schema: always all kinds of characters. *)
PasswordField(p) == Between(p, 6, 25) /\ p.mixed

(* user.schema and admin.schema: only for passwords of a certain length.   *)
CreateUserTakes(p) == Between(p, 6, 20) /\ (Between(p, 8, 100) => p.mixed)
CreateManagedTakes(p) == Between(p, 6, 20) /\ (Between(p, 8, 14) => p.mixed)

(* Faulty variant: changing a password asks no more than creating it. *)
ChangeTakesAsCreate(p) == CreateManagedTakes(p)

ChangeTakes(p) == Between(p, 8, 14) /\ p.mixed

PasswordsInit == password = NoPassword /\ signedIn = FALSE

Register ==
    /\ password = NoPassword
    /\ \E p \in AnyPassword : PasswordField(p) /\ password' = p
    /\ UNCHANGED signedIn

CreateUser ==
    /\ password = NoPassword
    /\ \E p \in AnyPassword : CreateUserTakes(p) /\ password' = p
    /\ UNCHANGED signedIn

CreateManagedUser ==
    /\ password = NoPassword
    /\ \E p \in AnyPassword : CreateManagedTakes(p) /\ password' = p
    /\ UNCHANGED signedIn

(* seed-users-bulk gives all its accounts the SEED_PASSWORD.  The other    *)
(* scripts have passwords of their own, which every schema takes.          *)
SeedUsers ==
    /\ password = NoPassword
    /\ \E p \in AnyPassword : p.length >= 6 /\ password' = p
    /\ UNCHANGED signedIn

(* With the right password, by email or by user code.  A password that the *)
(* schema refuses is answered 422 whether it is right or not.              *)
LogIn ==
    /\ password # NoPassword
    /\ PasswordField(password)
    /\ signedIn' = TRUE
    /\ UNCHANGED password

(* The current password may be any, so long as it is right. *)
ChangePassword ==
    /\ signedIn
    /\ \E p \in AnyPassword : ChangeTakes(p) /\ password' = p
    /\ UNCHANGED signedIn

(* `newPassword` counts where there is no `password`; it must be confirmed. *)
Meant(body) == IF body.password # NoPassword THEN body.password
                                             ELSE body.newPassword

ResetAccepts(body) ==
    /\ PasswordField(Meant(body))
    /\ body.confirmPassword = Meant(body)

ResetIt ==
    /\ password # NoPassword
    /\ \E first, second \in AnyPassword \union {NoPassword} :
          \E confirmed \in {first, second} :
             LET body == [password |-> first, newPassword |-> second,
                          confirmPassword |-> confirmed]
             IN  ResetAccepts(body) /\ password' = Meant(body)
    /\ UNCHANGED signedIn

SignOut ==
    /\ signedIn
    /\ signedIn' = FALSE
    /\ UNCHANGED password

PasswordsNext ==
    \/ Register \/ CreateUser \/ CreateManagedUser \/ SeedUsers
    \/ LogIn \/ SignOut \/ ChangePassword \/ ResetIt

PasswordsSpec == PasswordsInit /\ [][PasswordsNext]_passwordVars
-----------------------------------------------------------------------------
(* Types. *)
PasswordsOK ==
    /\ password \in AnyPassword \union {NoPassword}
    /\ signedIn \in BOOLEAN

(* Login asks the same of a password whoever set it, so an admin or the    *)
(* script can create an account that it refuses.  But nobody is locked out *)
(* later on: a change or a reset leaves a password that login takes, also  *)
(* of an account that it refused until then, and whoever is signed in can  *)
(* sign in again (auth.schema.ts:33-50, user.schema.ts:55-95).             *)
LoginStaysOpen ==
    [][/\ password' # password /\ password # NoPassword
             => PasswordField(password')
       /\ signedIn' => PasswordField(password')]_passwordVars
=============================================================================
