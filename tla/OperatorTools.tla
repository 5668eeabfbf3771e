---------------------------- MODULE OperatorTools ----------------------------
(***************************************************************************)
(* The command line tools (crates/tools) as people use them in one         *)
(* checkout: deploys (Deployments), signing requests (SigningDesk), and    *)
(* here the settings in .env, the `invoke` command and the vault file.     *)
(*                                                                         *)
(* The settings, the contract-id file and the vault file are shared, and   *)
(* nothing locks them.  `invoke` reads all it needs at its start and is    *)
(* one step.  The vault file is written by `keymanager vault-save` and by  *)
(* a program that keeps the platform's key pairs through the library (the  *)
(* keeper), which also reads it.  Two saves at the same moment are left    *)
(* out.                                                                    *)
(*                                                                         *)
(* Left out: commands that only print, the wording of messages, and calls  *)
(* that give up before they have changed anything.                         *)
(***************************************************************************)
EXTENDS KeyVault, Deployments, SigningDesk

CONSTANTS
    InvokeNetworks,  \* the networks invoke knows: sandbox is not one
    DefaultNetwork,
    KeyPairs,        \* what the keeper is given to store
    Settings,        \* what may be in .env
    Starts           \* where a history may start, and its bound: how many commands and
                     \* edits, calls of the keeper, and calls at the desk it may hold

Secrets == KeyStrings \cup {None}
Env ==
    [network : Networks \cup {Absent}, adminSecret : Secrets,
     password : Passwords \cup {None}, adminEncrypted : Ciphers \cup {None, Cut}]
Budgets == [command : Nat, keeper : Nat, desk : Nat]
InvokeOptions == [network : InvokeNetworks \cup {Absent}, sourceKey : Secrets]

ASSUME ToolsAssumption ==
    /\ InvokeNetworks \subseteq Networks /\ DefaultNetwork \in InvokeNetworks
    /\ Settings \subseteq Env
    /\ KeyPairs \subseteq [public : KeyStrings, secret : KeyStrings, issuing : KeyStrings]
    \* what the keeper stores are pairs, or strings that are refused
    /\ \A kp \in KeyPairs : {kp.public, kp.secret} \subseteq Keys =>
         kp.public = kp.secret /\ kp.issuing # kp.public
    /\ Starts \subseteq [env : Settings, deployed : Networks \cup {Absent},
                        password : Passwords, left : Budgets]

VARIABLES
    env,        \* .env: the settings every command reads when it starts
    signed,     \* the last invocation: its key, where that came from, and its contract
    keeper,     \* the vault in the keeper's memory
    vaultFile,
    saving,     \* the save to vaultFile that is under way, or None
    half,       \* what a reader of the history would know: the key pairs whose last
                \* store changed the vault and then failed, in memory and in the file
    left        \* what is left of the budget

toolVars == <<env, signed>>
vaultVars == <<keeper, vaultFile, saving, half>>
vars == <<deployVars, deskVars, toolVars, vaultVars, left>>

Spend(on) == left[on] > 0 /\ left' = [left EXCEPT ![on] = @ - 1]

-----------------------------------------------------------------------------
(* Settings *)

\* The flag, else the setting, else testnet.
NetworkName(flag) ==
    IF flag # Absent THEN flag ELSE IF env.network # Absent THEN env.network ELSE DefaultNetwork

\* An editor, or the output of `keymanager encrypt` pasted whole or in part.
EditEnv ==
    /\ env' \in Settings
    /\ UNCHANGED <<deployVars, deskVars, vaultVars, signed>>

-----------------------------------------------------------------------------
(* invoke *)

\* Mutant: the vault is the one in the vault file.
VaultOfFile ==
    IF vaultFile = None THEN NewVault ELSE LoadFromFile(vaultFile, env.password)

\* The vault that `invoke` looks into.
InvokeVault == FromEnv(env)

\* The contract is the one in the contract-id file, as the README has it, and
\* must look like one; the network must be one that invoke knows.
Invoke(opts) ==
    LET chosen == ResolveSourceKey(opts.sourceKey, env.adminSecret, InvokeVault)
    IN  /\ NetworkName(opts.network) \in InvokeNetworks
        /\ idFile \in Contracts
        /\ chosen # None
        /\ signed' = [key |-> chosen.secret, source |-> chosen.source, contract |-> idFile]
        /\ UNCHANGED <<deployVars, deskVars, vaultVars, env>>

-----------------------------------------------------------------------------
(* The vault file *)

\* The file is emptied and written line by line.
BeginSave(v, h, by) ==
    /\ saving = None
    /\ saving' = [vault |-> v, half |-> h, by |-> by]
    /\ vaultFile' \in TornFiles(v)
    /\ half' = [half EXCEPT !.file = h]
    /\ UNCHANGED <<deployVars, deskVars, toolVars, keeper>>

FinishSave ==
    /\ saving # None
    /\ vaultFile' = SavedFile(saving.vault)
    /\ saving' = None
    /\ UNCHANGED <<deployVars, deskVars, toolVars, keeper, half>>

StopSave ==
    /\ saving # None
    /\ saving' = None
    /\ UNCHANGED <<deployVars, deskVars, toolVars, keeper, vaultFile, half>>

\* `keymanager vault-save`: the vault of the settings, so never a key pair.
VaultSave == BeginSave(FromEnv(env), {}, "command")

\* The keeper is one thread: it does nothing while its own save is under way.
KeeperDoes(v, h) ==
    /\ saving # None => saving.by # "keeper"
    /\ keeper' = v
    /\ half' = [half EXCEPT !.memory = h]
    /\ UNCHANGED <<deployVars, deskVars, toolVars, vaultFile, saving>>

KeeperOpen(p) == KeeperDoes(WithPassword(p), {})

KeeperLoad(p) ==
    /\ vaultFile # None
    /\ KeeperDoes(LoadFromFile(vaultFile, p), half.file)

KeeperStore(name, kp) ==
    LET stored == StorePair(keeper, name, kp)
    IN  KeeperDoes(stored.vault,
                   IF stored.ok THEN half.memory \ {name}
                   ELSE IF stored.vault # keeper THEN half.memory \cup {name}
                   ELSE half.memory)

KeeperSave == BeginSave(keeper, half.memory, "keeper")

-----------------------------------------------------------------------------

\* The keeper has just opened a vault.
Init ==
    /\ \E start \in Starts :
         /\ DeployInit(start.deployed)
         /\ env = start.env
         /\ keeper = WithPassword(start.password)
         /\ left = start.left
    /\ DeskInit
    /\ signed = None
    /\ vaultFile = None
    /\ saving = None
    /\ half = [memory |-> {}, file |-> {}]

\* deploy starts with the network that the flag or the settings name.
Deploy(o, args) ==
    /\ DeployStart(o, NetworkName(args.network), args.force,
                   env.adminSecret \notin {None, Blank})
    /\ UNCHANGED <<deskVars, toolVars, vaultVars>>

Command ==
    \/ \E o \in Operators, args \in DeployArgs : Deploy(o, args)
    \/ \E n \in Networks : DeleteRecord(n) /\ UNCHANGED <<deskVars, toolVars, vaultVars>>
    \/ \E opts \in InvokeOptions : Invoke(opts)
    \/ EditEnv
    \/ VaultSave

KeeperCall ==
    \/ \E p \in Passwords : KeeperOpen(p) \/ KeeperLoad(p)
    \/ \E name \in Pairs, kp \in KeyPairs : KeeperStore(name, kp)
    \/ KeeperSave

Next ==
    \/ Command /\ Spend("command")
    \/ KeeperCall /\ Spend("keeper")
    \/ DeskCalls /\ Spend("desk") /\ UNCHANGED <<deployVars, toolVars, vaultVars>>
    \/ /\ \E o \in Operators : DeployRuns(o)
       /\ UNCHANGED <<deskVars, toolVars, vaultVars, left>>
    \/ DeskRuns /\ UNCHANGED <<deployVars, toolVars, vaultVars, left>>
    \/ (FinishSave \/ StopSave) /\ UNCHANGED left

Spec == Init /\ [][Next]_vars

-----------------------------------------------------------------------------
(* Properties *)

VaultFiles ==
    [publics : [PublicNames -> Keys \cup {None, Cut}],
     secrets : [SecretNames -> Ciphers \cup {None, Cut}]]

\* Types of the files, of the settings, of the runs and of what is in memory.
TypeOK ==
    /\ DeployTypeOK
    /\ DeskTypeOK
    /\ env \in Env
    /\ signed \in [key : Keys, source : {"flag", "settings", "vault"}, contract : Contracts]
                   \cup {None}
    /\ keeper \in Vaults
    /\ vaultFile \in VaultFiles \cup {None}
    /\ saving \in [vault : Vaults, half : SUBSET Pairs, by : {"command", "keeper"}] \cup {None}
    /\ half \in [memory : SUBSET Pairs, file : SUBSET Pairs]
    /\ left \in Budgets

\* Whatever was saved, torn, overwritten by `vault-save` and loaded under any
\* password in between: a key pair that can be read out of the vault is one
\* pair, and a distribution account is not its own issuer, unless the pair's
\* last store reported a failure half way (keypair_manager.rs: store_in_vault,
\* load_from_vault; encrypted_vault.rs: save_to_file, load_from_file).
PairsMatch ==
    /\ LET kp == LoadMaster(keeper)
       IN  kp # None /\ "master" \notin half.memory => kp.public = kp.secret
    /\ LET kp == LoadDistribution(keeper)
       IN  kp # None /\ "distribution" \notin half.memory =>
             kp.public = kp.secret /\ kp.issuing # kp.public

\* An invocation without --source-key is signed by the admin: by the plain key
\* of the settings when one is set, else by the encrypted key of the settings
\* under the password of the settings.  No key of the vault file, and so never
\* the platform's master key, signs one (invoke.rs: resolve_source_key).
AdminSigns ==
    [][signed' # signed /\ signed'.source # "flag" =>
         IF env.adminSecret \notin {None, Blank}
         THEN signed'.key = env.adminSecret
         ELSE /\ env.password # None
              /\ env.adminEncrypted = Encrypt(env.password, signed'.key)]_vars
=============================================================================
