------------------------------ MODULE KeyVault ------------------------------
(***************************************************************************)
(* The key store of the command line tools: the encrypted vault            *)
(* (encrypted_vault.rs), the cipher behind it (key_manager.rs), the key    *)
(* pairs kept in it (keypair_manager.rs) and the choice of the key that    *)
(* signs an invocation (invoke.rs).  Pure operators on vaults and on       *)
(* settings; OperatorTools holds the state.                                *)
(*                                                                         *)
(* A key pair is a member of Keys: the same value stands for its S... and  *)
(* for its G... string, so a public and a secret string belong together    *)
(* exactly when they are equal.  Blank is the empty string, Bad a string   *)
(* that is no key, Cut a value whose tail was never written.  A cipher     *)
(* text opens under the password it was made with and under no other       *)
(* (AES-GCM).  An operation that fails returns None, or ok = FALSE.        *)
(*                                                                         *)
(* The names the code uses come back as they went into a vault file: none  *)
(* of them ends in _encrypted, the suffix that tells a secret's line.      *)
(***************************************************************************)
EXTENDS FiniteSets

CONSTANTS
    Keys,        \* key pairs
    Passwords,   \* master passwords
    None,        \* not there; an error
    Blank,       \* the empty string
    Bad,         \* a string that is not a key
    Cut          \* what is left of a value when a write stopped inside its line

Pairs == {"master", "distribution"}
SecretNames == {"admin"} \cup Pairs
PublicNames == Pairs \cup {"issuing"}   \* issuing: the distribution account's issuer

Ciphers == [password : Passwords, secret : Keys]
KeyStrings == Keys \cup {Blank, Bad}

ASSUME VaultAssumption ==
    /\ Keys \cap {None, Blank, Bad, Cut} = {}
    /\ Ciphers \cap {None, Cut} = {}
    /\ None \notin Passwords

Vaults ==
    [manager : Passwords \cup {None},
     secrets : [SecretNames -> Ciphers \cup {None, Cut}],
     publics : [PublicNames -> Keys \cup {None, Cut}]]

-----------------------------------------------------------------------------
(* The cipher. *)

\* The prefix and length checks of secret and public keys.
Valid(s) == s \in Keys

Encrypt(p, s) == [password |-> p, secret |-> s]

Decrypt(p, c) ==
    IF c \notin {None, Cut} /\ p # None /\ c.password = p THEN c.secret ELSE None

-----------------------------------------------------------------------------
(* The vault. *)

NewVault ==
    [manager |-> None,
     secrets |-> [n \in SecretNames |-> None],
     publics |-> [n \in PublicNames |-> None]]

WithPassword(p) == [NewVault EXCEPT !.manager = p]

\* The vault that the settings describe, without the issuing account's keys and
\* the public keys, which nothing else here reads: the admin's secret.
FromEnv(e) ==
    [manager |-> e.password,
     secrets |-> [n \in SecretNames |-> IF n = "admin" THEN e.adminEncrypted ELSE None],
     publics |-> NewVault.publics]

Stored(ok, v) == [ok |-> ok, vault |-> v]

\* Mutant: any string is stored.
StoreAnySecret(v, name, s) ==
    IF v.manager # None
    THEN Stored(TRUE, [v EXCEPT !.secrets[name] = Encrypt(v.manager, s)])
    ELSE Stored(FALSE, v)

StoreSecret(v, name, s) ==
    IF Valid(s) /\ v.manager # None
    THEN Stored(TRUE, [v EXCEPT !.secrets[name] = Encrypt(v.manager, s)])
    ELSE Stored(FALSE, v)

StorePublic(v, name, s) ==
    IF Valid(s) THEN Stored(TRUE, [v EXCEPT !.publics[name] = s]) ELSE Stored(FALSE, v)

RetrieveSecret(v, name) == Decrypt(v.manager, v.secrets[name])

-----------------------------------------------------------------------------
(* The vault file: one line per public key, then one line per secret. *)

SavedFile(v) == [publics |-> v.publics, secrets |-> v.secrets]

\* What a stopped write leaves of a section: some of its lines, in the order
\* the map happened to list them, and at most one line cut short.
Beginnings(section) ==
    {[n \in DOMAIN section |->
         IF n \in whole THEN section[n]
         ELSE IF n \in cut /\ section[n] # None THEN Cut ELSE None]
       : whole \in SUBSET DOMAIN section, cut \in {{n} : n \in DOMAIN section}}

\* Mutant: the secrets come first.
TornFilesSecretsFirst(v) ==
    {[publics |-> NewVault.publics, secrets |-> s] : s \in Beginnings(v.secrets)}
      \cup {[publics |-> p, secrets |-> v.secrets] : p \in Beginnings(v.publics)}

\* The public keys come first: a file with a secret in it has all of them.
TornFiles(v) ==
    {[publics |-> p, secrets |-> NewVault.secrets] : p \in Beginnings(v.publics)}
      \cup {[publics |-> v.publics, secrets |-> s] : s \in Beginnings(v.secrets)}

\* Reading takes any password, and takes every line as it is.
LoadFromFile(f, p) == [manager |-> p, publics |-> f.publics, secrets |-> f.secrets]

-----------------------------------------------------------------------------
(* Key pairs in the vault. *)

\* What `generate` returns: the keys themselves are left empty.
GeneratedPair(issuing) == [public |-> Blank, secret |-> Blank, issuing |-> issuing]

\* The secret first, then the public keys: a store that fails half way leaves
\* what it has stored.
StoreMaster(v, kp) ==
    LET secret == StoreSecret(v, "master", kp.secret)
    IN  IF ~secret.ok THEN secret ELSE StorePublic(secret.vault, "master", kp.public)

StoreDistribution(v, kp) ==
    LET secret == StoreSecret(v, "distribution", kp.secret)
        public == StorePublic(secret.vault, "distribution", kp.public)
    IN  IF ~secret.ok THEN secret
        ELSE IF ~public.ok THEN public
        ELSE StorePublic(public.vault, "issuing", kp.issuing)

StorePair(v, name, kp) ==
    IF name = "master" THEN StoreMaster(v, kp) ELSE StoreDistribution(v, kp)

\* A pair is there when all its parts are and its secret opens.
LoadMaster(v) ==
    LET public == v.publics["master"]
        secret == RetrieveSecret(v, "master")
    IN  IF None \in {public, secret} THEN None ELSE [public |-> public, secret |-> secret]

LoadDistribution(v) ==
    LET public  == v.publics["distribution"]
        secret  == RetrieveSecret(v, "distribution")
        issuing == v.publics["issuing"]
    IN  IF None \in {public, secret, issuing} THEN None
        ELSE [public |-> public, secret |-> secret, issuing |-> issuing]

-----------------------------------------------------------------------------
(* The key that signs. *)

Chosen(s, source) == IF Valid(s) THEN [secret |-> s, source |-> source] ELSE None

\* The flag, else the plain admin key, else the first vault key that opens.
\* A key that is given and is not a key ends the search.
ResolveSourceKey(flag, adminSecret, v) ==
    LET opens == {n \in {"admin", "master"} : RetrieveSecret(v, n) # None}
    IN  IF flag # None THEN Chosen(flag, "flag")
        ELSE IF adminSecret \notin {None, Blank} THEN Chosen(adminSecret, "settings")
        ELSE IF "admin" \in opens THEN Chosen(RetrieveSecret(v, "admin"), "vault")
        ELSE IF "master" \in opens THEN Chosen(RetrieveSecret(v, "master"), "vault")
        ELSE None
=============================================================================
