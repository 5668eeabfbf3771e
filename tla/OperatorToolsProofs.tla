------------------------- MODULE OperatorToolsProofs -------------------------
(***************************************************************************)
(* Theorems about the command line tools, for any operators, networks,     *)
(* keys, passwords, settings and bounds that satisfy the assumptions.      *)
(*                                                                         *)
(* The three parts of the state, the deployments, the desk and the vault,  *)
(* each change by steps of their own; every part has its own inductive     *)
(* invariant.                                                              *)
(***************************************************************************)
EXTENDS OperatorTools, FiniteSetTheorems, TLAPS

\* A step of each part, whoever takes it.
DeployNext ==
    \/ \E o \in Operators, n \in Networks, force, secretSet \in BOOLEAN :
          DeployStart(o, n, force, secretSet)
    \/ \E o \in Operators : DeployRuns(o)
    \/ \E n \in Networks : DeleteRecord(n)

DeskNext == DeskCalls \/ DeskRuns

VaultNext == VaultSave \/ FinishSave \/ StopSave \/ KeeperCall

-----------------------------------------------------------------------------
(* Invariants *)

\* A run that has printed a contract has deployed it on its network; one that is
\* past its record has recorded it.
RunsHold ==
    \A o \in Operators : runs[o] # Idle =>
        /\ runs[o].pc # "checked" => runs[o].contract # Absent
        /\ runs[o].contract \in Contracts => runs[o].contract \in chain[runs[o].network]
        /\ runs[o].pc \in {"recorded", "naming"} => runs[o].contract \in recorded

DeployInv == DeployTypeOK /\ RunsHold /\ RecordsTellTruth

\* An answer, a transaction in memory or in the file, is that of a request.
Requested(tx) == [id |-> tx.requestId, text |-> tx.text] \in requests

DeskInv ==
    /\ DeskTypeOK
    /\ \A a \in answers : Missing \notin {a.requestId, a.text} => Requested(a)
    /\ \A tx \in savers : Requested(tx)
    /\ file \notin {Missing, Garbled} => Requested(file)
    /\ \A s \in signatures : s.signature = [by |-> s.signer, over |-> s.text]
    /\ OnlyWhatWasRequested

\* The pairs outside h whose parts are there belong together.
Match(v, h) ==
    /\ \A n \in Pairs \ h :
         v.publics[n] # None /\ v.secrets[n] \in Ciphers => v.publics[n] = v.secrets[n].secret
    /\ ("distribution" \notin h /\ v.publics["distribution"] # None
          /\ v.publics["issuing"] # None /\ v.secrets["distribution"] \in Ciphers)
         => v.publics["issuing"] # v.publics["distribution"]

Saves == [vault : Vaults, half : SUBSET Pairs, by : {"command", "keeper"}]

VaultTypes ==
    /\ env \in Env
    /\ keeper \in Vaults
    /\ vaultFile \in VaultFiles \cup {None}
    /\ saving \in Saves \cup {None}
    /\ half \in [memory : SUBSET Pairs, file : SUBSET Pairs]

VaultInv ==
    /\ VaultTypes
    /\ Match(keeper, half.memory)
    /\ vaultFile # None => Match(vaultFile, half.file)
    /\ saving # None => saving.half = half.file /\ Match(saving.vault, half.file)

-----------------------------------------------------------------------------
(* Every step is a step of each part, or leaves it alone. *)

LEMMA NetworkType ==
  ASSUME env \in Env, NEW flag \in Networks \cup {Absent}
  PROVE  NetworkName(flag) \in Networks
  BY ToolsAssumption DEF NetworkName, Env

LEMMA DeployParts ==
  ASSUME env \in Env, [Next]_vars
  PROVE  [DeployNext]_deployVars
<1>1. CASE \E o \in Operators, args \in DeployArgs : Deploy(o, args)
  <2>1. PICK o \in Operators, args \in DeployArgs : Deploy(o, args)
    BY <1>1
  <2>2. NetworkName(args.network) \in Networks /\ args.force \in BOOLEAN
    BY NetworkType DEF DeployArgs
  <2>3. (env.adminSecret \notin {None, Blank}) \in BOOLEAN
    OBVIOUS
  <2>. QED
    BY <2>1, <2>2, <2>3 DEF Deploy, DeployNext
<1>2. CASE \E n \in Networks : DeleteRecord(n)
  BY <1>2 DEF DeployNext
<1>3. CASE \E o \in Operators : DeployRuns(o)
  BY <1>3 DEF DeployNext
<1>4. CASE UNCHANGED deployVars
  BY <1>4
<1>5. ASSUME NEW opts \in InvokeOptions, Invoke(opts) PROVE UNCHANGED deployVars
  BY <1>5 DEF Invoke
<1>6. EditEnv \/ VaultSave => UNCHANGED deployVars
  BY DEF EditEnv, VaultSave, BeginSave
<1>7. KeeperCall => UNCHANGED deployVars
  BY DEF KeeperCall, KeeperOpen, KeeperLoad, KeeperStore, KeeperSave, KeeperDoes, BeginSave
<1>8. FinishSave \/ StopSave => UNCHANGED deployVars
  BY DEF FinishSave, StopSave
<1>9. UNCHANGED vars => UNCHANGED deployVars
  BY DEF vars
<1>. QED
  BY <1>1, <1>2, <1>3, <1>4, <1>5, <1>6, <1>7, <1>8, <1>9 DEF Next, Command

LEMMA DeskParts ==
  ASSUME [Next]_vars
  PROVE  [DeskNext]_deskVars
<1>1. DeskCalls \/ DeskRuns => DeskNext
  BY DEF DeskNext
<1>2. Command => UNCHANGED deskVars
  BY DEF Command, Deploy, Invoke, EditEnv, VaultSave, BeginSave
<1>3. KeeperCall => UNCHANGED deskVars
  BY DEF KeeperCall, KeeperOpen, KeeperLoad, KeeperStore, KeeperSave, KeeperDoes, BeginSave
<1>4. FinishSave \/ StopSave => UNCHANGED deskVars
  BY DEF FinishSave, StopSave
<1>5. UNCHANGED vars => UNCHANGED deskVars
  BY DEF vars
<1>. QED
  BY <1>1, <1>2, <1>3, <1>4, <1>5 DEF Next

LEMMA VaultParts ==
  ASSUME [Next]_vars
  PROVE  [VaultNext]_vaultVars
<1>1. Command => VaultSave \/ UNCHANGED vaultVars
  BY DEF Command, Deploy, Invoke, EditEnv
<1>2. UNCHANGED vars => UNCHANGED vaultVars
  BY DEF vars
<1>. QED
  BY <1>1, <1>2 DEF Next, VaultNext

\* The settings change by an edit only, and the last invocation by `invoke`.
LEMMA SettingsParts ==
  ASSUME [Next]_vars
  PROVE  /\ env' = env \/ EditEnv
         /\ signed' = signed \/ \E opts \in InvokeOptions : Invoke(opts)
<1>1. KeeperCall => UNCHANGED toolVars
  BY DEF KeeperCall, KeeperOpen, KeeperLoad, KeeperStore, KeeperSave, KeeperDoes, BeginSave
<1>2. FinishSave \/ StopSave => UNCHANGED toolVars
  BY DEF FinishSave, StopSave
<1>3. VaultSave => UNCHANGED toolVars
  BY DEF VaultSave, BeginSave
<1>4. ASSUME NEW o \in Operators, NEW args \in DeployArgs, Deploy(o, args) PROVE UNCHANGED toolVars
  BY <1>4 DEF Deploy
<1>5. EditEnv => signed' = signed
  BY DEF EditEnv
<1>6. ASSUME NEW opts \in InvokeOptions, Invoke(opts) PROVE env' = env
  BY <1>6 DEF Invoke
<1>7. UNCHANGED vars => UNCHANGED toolVars
  BY DEF vars
<1>. QED
  BY <1>1, <1>2, <1>3, <1>4, <1>5, <1>6, <1>7 DEF Next, Command, toolVars

LEMMA EnvType ==
  ASSUME env \in Env, [Next]_vars
  PROVE  env' \in Env
  BY SettingsParts, ToolsAssumption DEF EditEnv

-----------------------------------------------------------------------------
(* The deployments *)

LEMMA RunFields ==
  ASSUME DeployTypeOK, NEW o \in Operators, runs[o] # Idle
  PROVE  /\ runs[o].network \in Networks /\ runs[o].contract \in Contracts \cup {Absent, Noise}
         /\ runs[o] = [pc |-> runs[o].pc, network |-> runs[o].network, contract |-> runs[o].contract]
         /\ runs[o].pc \in {"checked", "printed", "recording", "unlinked", "recorded", "naming"}
  BY DEF DeployTypeOK, Runs

\* Moving a run on leaves its network and its contract.
LEMMA GotoRuns ==
  ASSUME DeployTypeOK, NEW o \in Operators, runs[o] # Idle,
         NEW pc \in {"printed", "recording", "unlinked", "recorded", "naming"}, Goto(o, pc)
  PROVE  /\ runs' \in [Operators -> Runs]
         /\ \A p \in Operators \ {o} : runs'[p] = runs[p]
         /\ runs'[o].pc = pc /\ runs'[o].network = runs[o].network
         /\ runs'[o].contract = runs[o].contract
  BY RunFields DEF Goto, DeployTypeOK, Runs

LEMMA ExcuseType ==
  ASSUME DeployTypeOK, NEW n \in Networks, Excuse(n)
  PROVE  excuses' \in [Networks -> Nat]
  BY DEF Excuse, DeployTypeOK

LEMMA ChainGrows ==
  ASSUME DeployTypeOK, NEW n \in Networks, Deploys(n)
  PROVE  /\ chain' \in [Networks -> SUBSET Contracts]
         /\ \A m \in Networks : chain[m] \subseteq chain'[m]
         /\ NewContract \in Contracts /\ NewContract \in chain'[n]
<1>. DEFINE c == NewContract
<1>1. c \in Contracts /\ chain' = [chain EXCEPT ![n] = @ \cup {c}]
  BY DEF Deploys
<1>. HIDE DEF c
<1>2. /\ chain' \in [Networks -> SUBSET Contracts]
      /\ \A m \in Networks : chain[m] \subseteq chain'[m]
      /\ c \in chain'[n]
  BY <1>1 DEF DeployTypeOK
<1>. QED
  BY <1>1, <1>2 DEF c

LEMMA DeployStartInv ==
  ASSUME DeployInv, NEW o \in Operators, NEW n \in Networks, NEW force, NEW secretSet,
         DeployStart(o, n, force, secretSet)
  PROVE  DeployInv'
<1>1. runs' \in [Operators -> Runs] /\ \A p \in Operators \ {o} : runs'[p] = runs[p]
  BY DEF DeployInv, DeployTypeOK, DeployStart, Runs
<1>2. runs'[o].pc = "checked" /\ runs'[o].contract = Absent
  BY DEF DeployInv, DeployTypeOK, DeployStart
<1>3. excuses' \in [Networks -> Nat]
  BY ExcuseType DEF DeployInv, DeployTypeOK, DeployStart
<1>. QED
  BY <1>1, <1>2, <1>3, DeploymentsAssumption
  DEF DeployInv, DeployTypeOK, RunsHold, RecordsTellTruth, DeployStart

LEMMA StellarInv ==
  ASSUME DeployInv, NEW o \in Operators, StellarFails(o) \/ StellarDeploys(o)
  PROVE  DeployInv'
<1>. DEFINE n == runs[o].network
<1>0. runs[o] # Idle /\ n \in Networks
  BY RunFields DEF DeployInv, StellarFails, StellarDeploys, At
<1>1. CASE StellarFails(o)
  <2>1. runs' \in [Operators -> Runs] /\ runs'[o] = Idle /\ \A p \in Operators \ {o} : runs'[p] = runs[p]
    BY <1>1 DEF DeployInv, DeployTypeOK, StellarFails, Runs
  <2>2. /\ chain' \in [Networks -> SUBSET Contracts] /\ excuses' \in [Networks -> Nat]
        /\ \A m \in Networks : chain[m] \subseteq chain'[m]
    BY <1>0, <1>1, ChainGrows, ExcuseType DEF DeployInv, DeployTypeOK, StellarFails
  <2>. QED
    BY <1>1, <2>1, <2>2, RunFields
    DEF DeployInv, DeployTypeOK, RunsHold, RecordsTellTruth, StellarFails
<1>2. CASE StellarDeploys(o)
  <2>1. PICK line \in {NewContract, Noise} :
          runs' = [runs EXCEPT ![o] = [pc |-> "printed", network |-> n, contract |-> line]]
    BY <1>2 DEF StellarDeploys
  <2>2. /\ chain' \in [Networks -> SUBSET Contracts] /\ NewContract \in Contracts
        /\ NewContract \in chain'[n] /\ \A m \in Networks : chain[m] \subseteq chain'[m]
    BY <1>0, <1>2, ChainGrows DEF DeployInv, StellarDeploys
  <2>3. runs'[o] = [pc |-> "printed", network |-> n, contract |-> line]
    BY <2>1 DEF DeployInv, DeployTypeOK
  <2>4. runs' \in [Operators -> Runs] /\ \A p \in Operators \ {o} : runs'[p] = runs[p]
    BY <1>0, <2>1, <2>2, <2>3 DEF DeployInv, DeployTypeOK, Runs
  <2>5. line # Absent /\ (line \in Contracts => line \in chain'[n])
    BY <2>1, <2>2, DeploymentsAssumption
  <2>6. RunsHold'
    <3>1. SUFFICES ASSUME NEW p \in Operators, runs'[p] # Idle
                   PROVE  /\ runs'[p].pc # "checked" => runs'[p].contract # Absent
                          /\ runs'[p].contract \in Contracts => runs'[p].contract \in chain'[runs'[p].network]
                          /\ runs'[p].pc \in {"recorded", "naming"} => runs'[p].contract \in recorded'
      BY DEF RunsHold, Idle
    <3>2. CASE p = o
      BY <2>3, <2>5, <3>2
    <3>3. CASE p # o
      BY <1>2, <2>2, <2>4, <3>1, <3>3, RunFields DEF DeployInv, RunsHold, StellarDeploys
    <3>. QED
      BY <3>2, <3>3
  <2>. QED
    BY <1>2, <2>2, <2>4, <2>6 DEF DeployInv, DeployTypeOK, RecordsTellTruth, StellarDeploys
<1>. QED
  BY <1>1, <1>2

\* A step that moves one run on and changes no chain keeps what runs hold.
LEMMA RunsHoldGoto ==
  ASSUME DeployInv, NEW o \in Operators, At(o, "printed") \/ At(o, "recording")
                      \/ At(o, "unlinked") \/ At(o, "recorded"),
         NEW pc \in {"printed", "recording", "unlinked", "recorded", "naming"}, Goto(o, pc),
         UNCHANGED chain, recorded \subseteq recorded',
         pc \in {"recorded", "naming"} => runs[o].contract \in recorded'
  PROVE  RunsHold'
<1>1. runs[o] # Idle /\ runs[o].pc # "checked"
  BY DEF At
<1>2. /\ \A p \in Operators \ {o} : runs'[p] = runs[p]
      /\ runs'[o].pc = pc /\ runs'[o].network = runs[o].network
      /\ runs'[o].contract = runs[o].contract
  BY <1>1, GotoRuns DEF DeployInv
<1>. QED
  BY <1>1, <1>2 DEF DeployInv, RunsHold

LEMMA RecordInv ==
  ASSUME DeployInv, NEW o \in Operators, BeginRecord(o) \/ FinishRecord(o)
  PROVE  DeployInv'
<1>. DEFINE n == runs[o].network
<1>0. /\ runs[o] # Idle /\ n \in Networks /\ runs[o].contract \in Contracts \cup {Absent, Noise}
      /\ runs[o].pc # "checked" /\ runs[o].contract # Absent
      /\ runs[o].contract \in Contracts => runs[o].contract \in chain[n]
  BY RunFields DEF DeployInv, RunsHold, BeginRecord, FinishRecord, At
<1>1. CASE BeginRecord(o)
  <2>1. RunsHold'
    BY <1>1, RunsHoldGoto DEF DeployInv, BeginRecord
  <2>2. runs' \in [Operators -> Runs]
    BY <1>0, <1>1, GotoRuns DEF DeployInv, BeginRecord
  <2>3. /\ records' \in [Networks -> Contracts \cup {Absent, Torn, Noise}]
        /\ \A m \in Networks : records'[m] \in Contracts => records'[m] = records[m]
    BY <1>0, <1>1, DeploymentsAssumption DEF DeployInv, DeployTypeOK, BeginRecord, RecordPath
  <2>. QED
    BY <1>1, <2>1, <2>2, <2>3 DEF DeployInv, DeployTypeOK, RecordsTellTruth, BeginRecord
<1>2. CASE FinishRecord(o)
  <2>0. /\ recorded' = recorded \cup {runs[o].contract} /\ UNCHANGED <<idFile, chain>>
        /\ Goto(o, "recorded")
    BY <1>2 DEF FinishRecord
  <2>1. RunsHold'
    BY <1>2, <2>0, RunsHoldGoto DEF FinishRecord
  <2>2. runs' \in [Operators -> Runs]
    BY <1>0, <2>0, GotoRuns DEF DeployInv
  <2>3. excuses' \in [Networks -> Nat]
    BY <1>0, <1>2, ExcuseType DEF DeployInv, DeployTypeOK, FinishRecord, RecordPath
  <2>4. \/ records' = [records EXCEPT ![n] = runs[o].contract]
        \/ records' = [records EXCEPT ![n] = Torn]
        \/ records' = records
    BY <1>2 DEF FinishRecord, RecordPath
  <2>5. /\ records' \in [Networks -> Contracts \cup {Absent, Torn, Noise}]
        /\ \A m \in Networks : records'[m] \in Contracts => records'[m] \in chain[m]
    BY <1>0, <2>4, DeploymentsAssumption DEF DeployInv, DeployTypeOK, RecordsTellTruth
  <2>6. recorded' \subseteq Contracts \cup {Noise}
    BY <1>0, <2>0 DEF DeployInv, DeployTypeOK
  <2>. QED
    BY <2>0, <2>1, <2>2, <2>3, <2>5, <2>6 DEF DeployInv, DeployTypeOK, RecordsTellTruth
<1>. QED
  BY <1>1, <1>2

LEMMA IdFileInv ==
  ASSUME DeployInv, NEW o \in Operators, BeginIdFile(o) \/ FinishIdFile(o) \/ Crash(o)
  PROVE  DeployInv'
<1>0. runs[o] # Idle /\ runs[o].network \in Networks
  BY RunFields DEF DeployInv, BeginIdFile, FinishIdFile, Crash, At
<1>1. CASE BeginIdFile(o)
  <2>1. RunsHold'
    BY <1>0, <1>1, RunsHoldGoto DEF DeployInv, RunsHold, BeginIdFile, At
  <2>2. runs' \in [Operators -> Runs]
    BY <1>0, <1>1, GotoRuns DEF DeployInv, BeginIdFile
  <2>. QED
    BY <1>1, <2>1, <2>2, DeploymentsAssumption
    DEF DeployInv, DeployTypeOK, RecordsTellTruth, BeginIdFile
<1>2. CASE FinishIdFile(o) \/ Crash(o)
  <2>1. runs' \in [Operators -> Runs] /\ runs'[o] = Idle /\ \A p \in Operators \ {o} : runs'[p] = runs[p]
    BY <1>2 DEF DeployInv, DeployTypeOK, FinishIdFile, Crash, Runs
  <2>2. UNCHANGED <<records, chain, recorded>>
    BY <1>2 DEF FinishIdFile, Crash
  <2>3. RunsHold'
    BY <2>1, <2>2 DEF DeployInv, RunsHold
  <2>4. excuses' \in [Networks -> Nat]
    BY <1>0, <1>2, ExcuseType DEF DeployInv, DeployTypeOK, FinishIdFile, Crash
  <2>5. idFile' \in Contracts \cup {Absent, Torn, Noise} /\ (idFile' \in Contracts => idFile' \in recorded)
    <3>1. CASE FinishIdFile(o)
      <4>1. runs[o].contract \in recorded
        BY <3>1 DEF FinishIdFile, At, DeployInv, RunsHold
      <4>2. idFile' = runs[o].contract \/ idFile' = Torn
        BY <3>1 DEF FinishIdFile
      <4>. QED
        BY <4>1, <4>2, DeploymentsAssumption DEF DeployInv, DeployTypeOK
    <3>2. CASE Crash(o)
      BY <3>2 DEF Crash, DeployInv, DeployTypeOK, RecordsTellTruth
    <3>. QED
      BY <1>2, <3>1, <3>2
  <2>. QED
    BY <2>1, <2>2, <2>3, <2>4, <2>5 DEF DeployInv, DeployTypeOK, RecordsTellTruth
<1>. QED
  BY <1>1, <1>2

LEMMA DeleteInv ==
  ASSUME DeployInv, NEW n \in Networks, DeleteRecord(n)
  PROVE  DeployInv'
<1>1. \A o \in Operators :
        \/ runs'[o] = runs[o]
        \/ /\ runs[o] # Idle /\ runs[o].pc = "recording"
           /\ runs'[o] = [pc |-> "unlinked", network |-> runs[o].network, contract |-> runs[o].contract]
  <2>. SUFFICES ASSUME NEW o \in Operators, At(o, "recording"),
                       runs'[o] = [runs[o] EXCEPT !.pc = "unlinked"]
                PROVE  /\ runs[o] # Idle /\ runs[o].pc = "recording"
                       /\ runs'[o] = [pc |-> "unlinked", network |-> runs[o].network,
                                      contract |-> runs[o].contract]
    BY DEF DeleteRecord, DeployInv, DeployTypeOK
  <2>1. runs[o] # Idle /\ runs[o].pc = "recording"
    BY DEF At
  <2>. QED
    BY <2>1, RunFields DEF DeployInv
<1>2. runs' \in [Operators -> Runs]
  <2>1. ASSUME NEW o \in Operators PROVE runs'[o] \in Runs
    <3>1. CASE runs'[o] = runs[o]
      BY <3>1 DEF DeployInv, DeployTypeOK
    <3>2. CASE runs'[o] # runs[o]
      <4>1. /\ runs[o] # Idle
            /\ runs'[o] = [pc |-> "unlinked", network |-> runs[o].network, contract |-> runs[o].contract]
        BY <1>1, <3>2
      <4>2. runs[o].network \in Networks /\ runs[o].contract \in Contracts \cup {Absent, Noise}
        BY <4>1, RunFields DEF DeployInv
      <4>. QED
        BY <4>1, <4>2 DEF Runs
    <3>. QED
      BY <3>1, <3>2
  <2>2. runs' = [o \in Operators |-> runs'[o]]
    BY DEF DeleteRecord
  <2>. QED
    BY <2>1, <2>2
<1>3. UNCHANGED <<idFile, chain, recorded>> /\ excuses' \in [Networks -> Nat]
  BY ExcuseType DEF DeleteRecord, DeployInv
<1>4. RunsHold'
  <2>1. SUFFICES ASSUME NEW o \in Operators, runs'[o] # Idle
                 PROVE  /\ runs'[o].pc # "checked" => runs'[o].contract # Absent
                        /\ runs'[o].contract \in Contracts => runs'[o].contract \in chain[runs'[o].network]
                        /\ runs'[o].pc \in {"recorded", "naming"} => runs'[o].contract \in recorded
    BY <1>3 DEF RunsHold, Idle
  <2>2. CASE runs'[o] = runs[o]
    BY <2>1, <2>2 DEF DeployInv, RunsHold
  <2>3. CASE runs'[o] # runs[o]
    <3>1. /\ runs[o] # Idle /\ runs[o].pc = "recording"
          /\ runs'[o] = [pc |-> "unlinked", network |-> runs[o].network, contract |-> runs[o].contract]
      BY <1>1, <2>3
    <3>2. /\ runs[o].contract # Absent
          /\ runs[o].contract \in Contracts => runs[o].contract \in chain[runs[o].network]
      BY <3>1 DEF DeployInv, RunsHold
    <3>. QED
      BY <3>1, <3>2
  <2>. QED
    BY <2>2, <2>3
<1>5. /\ records' \in [Networks -> Contracts \cup {Absent, Torn, Noise}]
      /\ \A m \in Networks : records'[m] \in Contracts => records'[m] = records[m]
  BY DeploymentsAssumption DEF DeployInv, DeployTypeOK, DeleteRecord
<1>. QED
  BY <1>2, <1>3, <1>4, <1>5 DEF DeployInv, DeployTypeOK, RecordsTellTruth

LEMMA DeployStep ==
  ASSUME DeployInv, [DeployNext]_deployVars
  PROVE  DeployInv'
<1>1. CASE UNCHANGED deployVars
  BY <1>1 DEF deployVars, DeployInv, DeployTypeOK, RunsHold, RecordsTellTruth
<1>2. ASSUME NEW o \in Operators, DeployRuns(o) PROVE DeployInv'
  BY <1>2, StellarInv, RecordInv, IdFileInv DEF DeployRuns
<1>. QED
  BY <1>1, <1>2, DeployStartInv, DeleteInv DEF DeployNext

-----------------------------------------------------------------------------
(* One contract per network: the argument counts, per network, the contracts *)
(* there are and the runs that have checked but not deployed.  While that    *)
(* number is at its limit, the next run finds another one that is not done,  *)
(* or a record, and so needs an excuse itself.                               *)

Checked(n) == {o \in Operators : At(o, "checked") /\ runs[o].network = n}
Count(n) == Cardinality(chain[n]) + Cardinality(Checked(n))

\* A run that has checked and not yet written its record.
Deciding(n) ==
    \E o \in Operators : /\ runs[o] # Idle /\ runs[o].network = n
                         /\ runs[o].pc \in {"checked", "printed", "recording"}

CountInv ==
    \A n \in Networks :
        /\ Count(n) <= 1 + excuses[n]
        /\ Count(n) <= excuses[n] \/ Deciding(n) \/ ExistingContractId(n)

LEMMA ContractSets ==
  ASSUME NEW S \in SUBSET Contracts
  PROVE  IsFiniteSet(S) /\ Cardinality(S) \in Nat
<1>1. IsFiniteSet(Contracts)
  BY FS_Interval, DeploymentsAssumption DEF Contracts
<1>. QED
  BY <1>1, FS_Subset, FS_CardinalityType

LEMMA OperatorSets ==
  ASSUME NEW S \in SUBSET Operators
  PROVE  IsFiniteSet(S) /\ Cardinality(S) \in Nat
  BY DeploymentsAssumption, FS_Subset, FS_CardinalityType

LEMMA Counts ==
  ASSUME DeployTypeOK, DeployTypeOK', NEW n \in Networks
  PROVE  /\ chain[n] \in SUBSET Contracts /\ chain'[n] \in SUBSET Contracts
         /\ Checked(n) \in SUBSET Operators /\ Checked(n)' \in SUBSET Operators
         /\ Cardinality(chain[n]) \in Nat /\ Cardinality(chain'[n]) \in Nat
         /\ Cardinality(Checked(n)) \in Nat /\ Cardinality(Checked(n)') \in Nat
         /\ excuses[n] \in Nat /\ excuses'[n] \in Nat
<1>1. /\ chain[n] \in SUBSET Contracts /\ chain'[n] \in SUBSET Contracts
      /\ excuses[n] \in Nat /\ excuses'[n] \in Nat
  BY DEF DeployTypeOK
<1>2. Checked(n) \in SUBSET Operators /\ Checked(n)' \in SUBSET Operators
  BY DEF Checked
<1>. QED
  BY <1>1, <1>2, ContractSets, OperatorSets

\* A step of one run leaves the counts of other networks alone.
LEMMA OtherNetworks ==
  ASSUME NEW o \in Operators, NEW m \in Networks,
         \A p \in Operators \ {o} : runs'[p] = runs[p],
         runs[o] # Idle => runs[o].network # m,
         runs'[o] # Idle => runs'[o].network # m,
         chain'[m] = chain[m]
  PROVE  Count(m)' = Count(m) /\ (Deciding(m) => Deciding(m)')
<1>1. Checked(m)' = Checked(m)
  BY DEF Checked, At, Idle
<1>2. Deciding(m) => Deciding(m)'
  BY DEF Deciding, Idle
<1>. QED
  BY <1>1, <1>2 DEF Count

\* A deployment adds at most one to its network.
LEMMA DeploysOne ==
  ASSUME DeployTypeOK, NEW n \in Networks, Deploys(n)
  PROVE  /\ Cardinality(chain'[n]) <= Cardinality(chain[n]) + 1
         /\ \A m \in Networks \ {n} : chain'[m] = chain[m]
<1>. DEFINE c == NewContract
<1>1. chain' = [chain EXCEPT ![n] = @ \cup {c}]
  BY DEF Deploys
<1>. HIDE DEF c
<1>2. chain'[n] = chain[n] \cup {c} /\ \A m \in Networks \ {n} : chain'[m] = chain[m]
  BY <1>1 DEF DeployTypeOK
<1>3. IsFiniteSet(chain[n]) /\ Cardinality(chain[n]) \in Nat
  BY ContractSets DEF DeployTypeOK
<1>. QED
  BY <1>2, <1>3, FS_AddElement

LEMMA StartCounts ==
  ASSUME DeployTypeOK, DeployTypeOK', CountInv, NEW o \in Operators, NEW n \in Networks,
         NEW force, NEW secretSet, DeployStart(o, n, force, secretSet)
  PROVE  CountInv'
<1>1. /\ runs[o] = Idle
      /\ runs'[o] = [pc |-> "checked", network |-> n, contract |-> Absent]
      /\ \A p \in Operators \ {o} : runs'[p] = runs[p]
      /\ UNCHANGED <<records, chain>>
  BY DEF DeployStart, DeployTypeOK
<1>2. runs'[o] # Idle /\ runs'[o].network = n /\ runs'[o].pc = "checked"
  BY <1>1 DEF Idle
<1>3. \A m \in Networks : ExistingContractId(m)' = ExistingContractId(m)
  BY <1>1 DEF ExistingContractId
<1>4. \A m \in Networks \ {n} : excuses'[m] = excuses[m]
  BY DEF DeployStart, Excuse, DeployTypeOK
<1>5. Deciding(n)'
  BY <1>2 DEF Deciding
<1>6. Checked(n)' = Checked(n) \cup {o} /\ o \notin Checked(n)
  BY <1>1, <1>2 DEF Checked, At
<1>7. Count(n)' = Count(n) + 1
  <2>1. Cardinality(Checked(n)') = Cardinality(Checked(n)) + 1
    BY <1>6, FS_AddElement, OperatorSets, Counts
  <2>. QED
    BY <1>1, <2>1, Counts DEF Count
<1>8. Count(n) \in Nat /\ Count(n)' \in Nat /\ excuses[n] \in Nat
  BY <1>7, Counts DEF Count
<1>9. excuses'[n] = excuses[n] + 1 \/ (excuses'[n] = excuses[n] /\ Count(n) <= excuses[n])
  <2>1. CASE force \/ InFlight(n) # {}
    BY <2>1 DEF DeployStart, Excuse, DeployTypeOK
  <2>2. CASE ~(force \/ InFlight(n) # {})
    <3>1. ~Deciding(n) /\ ~ExistingContractId(n) /\ excuses' = excuses
      BY <2>2 DEF DeployStart, InFlight, Deciding
    <3>. QED
      BY <3>1 DEF CountInv
  <2>. QED
    BY <2>1, <2>2
<1>10. ASSUME NEW m \in Networks \ {n}
       PROVE  Count(m)' = Count(m) /\ (Deciding(m) => Deciding(m)')
  BY <1>1, <1>2, OtherNetworks
<1>. QED
  BY <1>3, <1>4, <1>5, <1>7, <1>8, <1>9, <1>10 DEF CountInv

\* A run that stops or moves on, at its own network and at the others.
LEMMA RunCounts ==
  ASSUME DeployTypeOK, DeployTypeOK', RunsHold, CountInv, NEW o \in Operators, DeployRuns(o),
         NEW n \in Networks, n = runs[o].network
  PROVE  CountInv'
<1>1. /\ runs[o] # Idle
      /\ runs[o].contract \in Contracts \cup {Absent, Noise}
      /\ runs[o].pc \in {"checked", "printed", "recording", "unlinked", "recorded", "naming"}
  BY RunFields DEF DeployRuns, StellarFails, StellarDeploys, BeginRecord, FinishRecord,
                   BeginIdFile, FinishIdFile, Crash, At
<1>2. /\ \A p \in Operators \ {o} : runs'[p] = runs[p]
      /\ runs'[o] # Idle => runs'[o].network = n
  <2>1. CASE StellarFails(o) \/ FinishIdFile(o) \/ Crash(o)
    BY <2>1 DEF StellarFails, FinishIdFile, Crash, DeployTypeOK
  <2>2. CASE StellarDeploys(o)
    BY <2>2 DEF StellarDeploys, DeployTypeOK
  <2>3. CASE BeginRecord(o) \/ FinishRecord(o) \/ BeginIdFile(o)
    BY <1>1, <2>3, GotoRuns DEF BeginRecord, FinishRecord, BeginIdFile
  <2>. QED
    BY <2>1, <2>2, <2>3 DEF DeployRuns
<1>3. ASSUME NEW m \in Networks \ {n}
      PROVE  /\ chain'[m] = chain[m] /\ excuses'[m] = excuses[m] /\ records'[m] = records[m]
  <2>1. chain'[m] = chain[m]
    BY <1>1, DeploysOne DEF DeployRuns, StellarFails, StellarDeploys, BeginRecord, FinishRecord,
                            BeginIdFile, FinishIdFile, Crash
  <2>2. excuses'[m] = excuses[m]
    BY DEF DeployRuns, StellarFails, StellarDeploys, BeginRecord, FinishRecord, BeginIdFile,
           FinishIdFile, Crash, Excuse, RecordPath, DeployTypeOK
  <2>3. records'[m] = records[m]
    BY DEF DeployRuns, StellarFails, StellarDeploys, BeginRecord, FinishRecord, BeginIdFile,
           FinishIdFile, Crash, RecordPath, DeployTypeOK
  <2>. QED
    BY <2>1, <2>2, <2>3
<1>4. ASSUME NEW m \in Networks \ {n}
      PROVE  Count(m)' = Count(m) /\ (Deciding(m) => Deciding(m)')
  BY <1>1, <1>2, <1>3, OtherNetworks
<1>5. Count(n) \in Nat /\ Count(n)' \in Nat /\ excuses[n] \in Nat /\ excuses'[n] \in Nat
  BY <1>1, Counts DEF Count
<1>6. CASE runs[o].pc = "checked"
  <2>1. IF runs'[o] = Idle THEN TRUE ELSE runs'[o].pc = "printed"
    BY <1>1, <1>6 DEF DeployRuns, StellarFails, StellarDeploys, BeginRecord, FinishRecord,
                      BeginIdFile, FinishIdFile, Crash, At, DeployTypeOK
  <2>2. Checked(n)' = Checked(n) \ {o} /\ o \in Checked(n)
    BY <1>1, <1>2, <1>6, <2>1 DEF Checked, At
  <2>3. Cardinality(Checked(n)') = Cardinality(Checked(n)) - 1
    BY <1>1, <2>2, FS_RemoveElement, OperatorSets, Counts
  <2>4. CASE StellarFails(o) \/ Crash(o)
    <3>1. \/ chain' = chain /\ excuses' = excuses
          \/ Deploys(n) /\ Excuse(n)
      BY <1>6, <2>4 DEF StellarFails, Crash
    <3>2. Count(n)' <= excuses'[n]
      <4>1. CASE chain' = chain /\ excuses' = excuses
        BY <1>1, <1>5, <2>3, <4>1, Counts DEF Count, CountInv
      <4>2. CASE Deploys(n) /\ Excuse(n)
        <5>1. Cardinality(chain'[n]) <= Cardinality(chain[n]) + 1
          BY <1>1, <4>2, DeploysOne
        <5>2. excuses'[n] = excuses[n] + 1
          BY <1>1, <4>2 DEF Excuse, DeployTypeOK
        <5>. QED
          BY <1>1, <1>5, <2>3, <5>1, <5>2, Counts DEF Count, CountInv
      <4>. QED
        BY <3>1, <4>1, <4>2
    <3>. QED
      BY <1>3, <1>4, <1>5, <3>2 DEF CountInv, ExistingContractId
  <2>5. CASE StellarDeploys(o)
    <3>1. runs'[o] # Idle /\ runs'[o].network = n /\ runs'[o].pc = "printed"
      BY <1>1, <2>5 DEF StellarDeploys, DeployTypeOK, Idle
    <3>2. Deciding(n)'
      BY <3>1 DEF Deciding
    <3>3. Cardinality(chain'[n]) <= Cardinality(chain[n]) + 1 /\ excuses' = excuses
      BY <1>1, <2>5, DeploysOne DEF StellarDeploys
    <3>4. Count(n)' <= 1 + excuses'[n]
      BY <1>1, <1>5, <2>3, <3>3, Counts DEF Count, CountInv
    <3>. QED
      BY <1>3, <1>4, <1>5, <3>2, <3>4 DEF CountInv, ExistingContractId
  <2>. QED
    BY <1>6, <2>4, <2>5
    DEF DeployRuns, BeginRecord, FinishRecord, BeginIdFile, FinishIdFile, At
<1>7. CASE runs[o].pc # "checked"
  <2>1. chain' = chain /\ ~StellarFails(o) /\ ~StellarDeploys(o)
    BY <1>7 DEF DeployRuns, StellarFails, StellarDeploys, BeginRecord, FinishRecord,
                BeginIdFile, FinishIdFile, Crash, At
  <2>2. runs'[o] # Idle => runs'[o].pc # "checked"
    <3>1. CASE FinishIdFile(o) \/ Crash(o)
      BY <3>1 DEF FinishIdFile, Crash, DeployTypeOK
    <3>2. CASE BeginRecord(o) \/ FinishRecord(o) \/ BeginIdFile(o)
      BY <1>1, <3>2, GotoRuns DEF BeginRecord, FinishRecord, BeginIdFile
    <3>. QED
      BY <2>1, <3>1, <3>2 DEF DeployRuns
  <2>3. Checked(n)' = Checked(n)
    BY <1>1, <1>2, <1>7, <2>2 DEF Checked, At
  <2>4. Count(n)' = Count(n)
    BY <2>1, <2>3 DEF Count
  <2>5. \/ excuses'[n] = excuses[n] + 1
        \/ excuses'[n] = excuses[n] /\ (Deciding(n)' \/ ExistingContractId(n)')
        \/ /\ excuses'[n] = excuses[n] /\ (Deciding(n) => Deciding(n)')
           /\ ExistingContractId(n)' = ExistingContractId(n)
    <3>1. CASE BeginRecord(o)
      <4>1. runs'[o].pc = "recording" /\ runs'[o].network = n
        BY <1>1, <3>1, GotoRuns DEF BeginRecord
      <4>2. runs'[o] # Idle
        BY <3>1 DEF BeginRecord, Goto, DeployTypeOK, Idle, At
      <4>. QED
        BY <3>1, <4>1, <4>2 DEF Deciding, BeginRecord
    <3>2. CASE FinishRecord(o)
      <4>1. CASE At(o, "recording") /\ records' = [records EXCEPT ![n] = runs[o].contract]
                 /\ UNCHANGED excuses
        <5>1. records'[n] = runs[o].contract /\ runs[o].contract # Absent
          BY <1>1, <1>7, <4>1 DEF DeployTypeOK, RunsHold
        <5>. QED
          BY <1>1, <4>1, <5>1, DeploymentsAssumption DEF ExistingContractId
      <4>2. CASE Excuse(n)
        BY <1>1, <4>2 DEF Excuse, DeployTypeOK
      <4>3. CASE At(o, "unlinked") /\ UNCHANGED <<records, excuses>>
        <5>1. Deciding(n) => Deciding(n)'
          BY <1>2, <4>3 DEF Deciding, At
        <5>. QED
          BY <4>3, <5>1 DEF ExistingContractId
      <4>. QED
        BY <3>2, <4>1, <4>2, <4>3 DEF FinishRecord, RecordPath
    <3>3. CASE BeginIdFile(o) \/ FinishIdFile(o)
      <4>1. Deciding(n) => Deciding(n)'
        BY <1>2, <3>3 DEF Deciding, At, BeginIdFile, FinishIdFile
      <4>. QED
        BY <3>3, <4>1 DEF ExistingContractId, BeginIdFile, FinishIdFile
    <3>4. CASE Crash(o)
      <4>1. CASE runs[o].pc \in {"printed", "recording"}
        BY <1>1, <3>4, <4>1 DEF Crash, Excuse, DeployTypeOK
      <4>2. CASE runs[o].pc \notin {"printed", "recording"}
        <5>1. Deciding(n) => Deciding(n)'
          BY <1>2, <1>7, <4>2 DEF Deciding
        <5>. QED
          BY <3>4, <4>2, <5>1 DEF ExistingContractId, Crash
      <4>. QED
        BY <4>1, <4>2
    <3>. QED
      BY <2>1, <3>1, <3>2, <3>3, <3>4 DEF DeployRuns
  <2>6. /\ Count(n)' <= 1 + excuses'[n]
        /\ Count(n)' <= excuses'[n] \/ Deciding(n)' \/ ExistingContractId(n)'
    BY <1>1, <1>5, <2>4, <2>5 DEF CountInv
  <2>. QED
    BY <1>3, <1>4, <1>5, <2>6 DEF CountInv, ExistingContractId
<1>. QED
  BY <1>6, <1>7

LEMMA DeleteCounts ==
  ASSUME DeployTypeOK, DeployTypeOK', CountInv, NEW n \in Networks, DeleteRecord(n)
  PROVE  CountInv'
<1>1. \A o \in Operators :
        \/ runs'[o] = runs[o]
        \/ /\ runs[o] # Idle /\ runs[o].pc = "recording" /\ runs[o].network = n
           /\ runs'[o] # Idle => runs'[o].pc = "unlinked"
  <2>. SUFFICES ASSUME NEW o \in Operators, runs'[o] # runs[o]
                PROVE  /\ runs[o] # Idle /\ runs[o].pc = "recording" /\ runs[o].network = n
                       /\ runs'[o] # Idle => runs'[o].pc = "unlinked"
    OBVIOUS
  <2>1. /\ At(o, "recording") /\ RecordPath(o) = n
        /\ runs'[o] = [runs[o] EXCEPT !.pc = "unlinked"]
    BY DEF DeleteRecord
  <2>2. runs[o] # Idle /\ runs[o].pc = "recording" /\ runs[o].network = n
    BY <2>1 DEF At, RecordPath
  <2>3. runs'[o].pc = "unlinked"
    BY <2>1, <2>2, RunFields
  <2>. QED
    BY <2>2, <2>3
<1>2. chain' = chain /\ excuses'[n] = excuses[n] + 1
      /\ \A m \in Networks \ {n} : excuses'[m] = excuses[m] /\ records'[m] = records[m]
  BY DEF DeleteRecord, Excuse, DeployTypeOK
<1>3. ASSUME NEW m \in Networks PROVE Count(m)' = Count(m)
  <2>1. Checked(m)' = Checked(m)
    BY <1>1 DEF Checked, At
  <2>. QED
    BY <1>2, <2>1 DEF Count
<1>4. ASSUME NEW m \in Networks \ {n} PROVE Deciding(m) => Deciding(m)'
  BY <1>1 DEF Deciding
<1>5. Count(n) \in Nat /\ excuses[n] \in Nat
  BY Counts DEF Count
<1>. QED
  BY <1>2, <1>3, <1>4, <1>5 DEF CountInv, ExistingContractId

LEMMA CountStep ==
  ASSUME DeployInv, DeployInv', CountInv, [DeployNext]_deployVars
  PROVE  CountInv'
<1>1. ASSUME NEW o \in Operators, DeployRuns(o) PROVE CountInv'
  <2>1. runs[o] # Idle
    BY <1>1 DEF DeployRuns, StellarFails, StellarDeploys, BeginRecord, FinishRecord,
                BeginIdFile, FinishIdFile, Crash, At
  <2>2. PICK n \in Networks : n = runs[o].network
    BY <2>1, RunFields DEF DeployInv
  <2>. QED
    BY <1>1, <2>2, RunCounts DEF DeployInv
<1>2. CASE UNCHANGED deployVars
  <2>1. \A n \in Networks : /\ Count(n)' = Count(n) /\ Deciding(n)' = Deciding(n)
                            /\ ExistingContractId(n)' = ExistingContractId(n)
    BY <1>2 DEF deployVars, Count, Checked, At, Deciding, ExistingContractId
  <2>. QED
    BY <1>2, <2>1 DEF CountInv, deployVars
<1>. QED
  BY <1>1, <1>2, StartCounts, DeleteCounts DEF DeployNext, DeployInv

-----------------------------------------------------------------------------
(* The desk *)

LEMMA RequestFields ==
  ASSUME NEW r \in Requests
  PROVE  r = [id |-> r.id, text |-> r.text] /\ r.id \in Ids /\ r.text \in Texts
  BY DEF Requests

LEMMA BuildInv ==
  ASSUME DeskInv, NEW text \in Texts, Build(text)
  PROVE  DeskInv'
<1>1. [id |-> clock, text |-> text] \in Requests
  BY DEF DeskInv, DeskTypeOK, Requests
<1>2. requests \subseteq requests' /\ requests' \subseteq Requests
  BY <1>1 DEF Build, DeskInv, DeskTypeOK
<1>3. UNCHANGED <<clock, answers, savers, file, submitted, signatures, verified>>
  BY DEF Build
<1>. QED
  BY <1>2, <1>3 DEF DeskInv, DeskTypeOK, Requested, OnlyWhatWasRequested

LEMMA WalletInv ==
  ASSUME DeskInv, NEW r \in requests, NEW wallet \in Wallets, WalletAnswers(r, wallet)
  PROVE  DeskInv'
<1>1. PICK id \in {r.id, Missing}, text \in {r.text, Missing}, signer \in {wallet, Missing} :
        answers' = answers \cup {[requestId |-> id, text |-> text, signer |-> signer]}
  BY DEF WalletAnswers, WalletFormat
<1>. DEFINE a == [requestId |-> id, text |-> text, signer |-> signer]
<1>2. r = [id |-> r.id, text |-> r.text] /\ r.id \in Ids /\ r.text \in Texts
  BY RequestFields DEF DeskInv, DeskTypeOK
<1>3. a \in Answers
  BY <1>2 DEF Answers
<1>4. Missing \notin {a.requestId, a.text} => Requested(a)
  BY <1>2 DEF Requested
<1>5. UNCHANGED <<clock, requests, savers, file, submitted, signatures, verified>>
  BY DEF WalletAnswers
<1>6. answers' = answers \cup {a}
  BY <1>1
<1>. HIDE DEF a
<1>. QED
  BY <1>3, <1>4, <1>5, <1>6 DEF DeskInv, DeskTypeOK, Requested, OnlyWhatWasRequested

LEMMA AnswerFileInv ==
  ASSUME DeskInv, NEW a \in answers, BeginAnswerFile(a)
  PROVE  DeskInv'
<1>. DEFINE tx == ParseResponse(a)
<1>1. /\ a \in Answers /\ Missing \notin {a.requestId, a.text} /\ Requested(a)
  BY DEF DeskInv, DeskTypeOK, BeginAnswerFile
<1>2. tx \in SignedTransactions
  BY <1>1 DEF Answers, SignedTransactions, ParseResponse
<1>3. Requested(tx)
  BY <1>1 DEF Requested, ParseResponse
<1>4. savers' = savers \cup {tx} /\ file' = Garbled
  BY DEF BeginAnswerFile
<1>5. UNCHANGED <<clock, requests, answers, submitted, signatures, verified>>
  BY DEF BeginAnswerFile
<1>. HIDE DEF tx
<1>. QED
  BY <1>2, <1>3, <1>4, <1>5 DEF DeskInv, DeskTypeOK, Requested, OnlyWhatWasRequested

LEMMA SignInv ==
  ASSUME DeskInv, NEW r \in requests, NEW key \in Servers, SignServerSide(r, key)
  PROVE  DeskInv'
<1>. DEFINE s == [requestId |-> r.id, text |-> r.text,
                  signature |-> [by |-> key, over |-> r.text], signer |-> key]
<1>1. r.id \in Ids /\ r.text \in Texts
  BY RequestFields DEF DeskInv, DeskTypeOK
<1>2. s \in ServerSigned /\ s.signature = [by |-> s.signer, over |-> s.text]
  BY <1>1 DEF ServerSigned
<1>3. signatures' = signatures \cup {s}
  BY DEF SignServerSide
<1>4. UNCHANGED <<clock, requests, answers, savers, file, submitted, verified>>
  BY DEF SignServerSide
<1>. HIDE DEF s
<1>. QED
  BY <1>2, <1>3, <1>4 DEF DeskInv, DeskTypeOK, Requested, OnlyWhatWasRequested

LEMMA ReceiveInv ==
  ASSUME DeskInv, NEW signed_ \in signatures, NEW r \in requests,
         NEW signer \in {signed_.signer, Missing}, Receive(signed_, r.id, r.text, signer)
  PROVE  DeskInv'
<1>. DEFINE p == [signed_ EXCEPT !.requestId = r.id, !.text = r.text, !.signer = signer]
<1>1. /\ signed_ \in ServerSigned /\ r.id \in Ids /\ r.text \in Texts
      /\ signed_.signature = [by |-> signed_.signer, over |-> signed_.text]
  BY RequestFields DEF DeskInv, DeskTypeOK
<1>2. /\ p \in ServerSigned /\ p.text = r.text /\ p.signer = signer
      /\ p.signature = signed_.signature
  BY <1>1 DEF ServerSigned
<1>3. p.signature = [by |-> p.signer, over |-> p.text]
  BY DEF Receive, Verify
<1>4. signed_.text = p.text /\ signed_.signer = p.signer
  BY <1>1, <1>2, <1>3
<1>5. verified' = p /\ UNCHANGED <<clock, requests, answers, savers, file, submitted, signatures>>
  BY DEF Receive
<1>. HIDE DEF p
<1>. QED
  BY <1>2, <1>4, <1>5 DEF DeskInv, DeskTypeOK, Requested, OnlyWhatWasRequested

LEMMA DeskRunsInv ==
  ASSUME DeskInv, DeskRuns
  PROVE  DeskInv'
<1>1. CASE \E tx \in savers : FinishAnswerFile(tx) \/ StopAnswerFile(tx)
  BY <1>1 DEF FinishAnswerFile, StopAnswerFile, DeskInv, DeskTypeOK, Requested, OnlyWhatWasRequested
<1>2. CASE Submit
  BY <1>2 DEF Submit, DeskInv, DeskTypeOK, Requested, OnlyWhatWasRequested
<1>3. CASE Tick
  BY <1>3, DeskAssumption DEF Tick, Ids, DeskInv, DeskTypeOK, Requested, OnlyWhatWasRequested
<1>. QED
  BY <1>1, <1>2, <1>3 DEF DeskRuns

LEMMA DeskStep ==
  ASSUME DeskInv, [DeskNext]_deskVars
  PROVE  DeskInv'
<1>1. CASE UNCHANGED deskVars
  BY <1>1 DEF deskVars, DeskInv, DeskTypeOK, Requested, OnlyWhatWasRequested
<1>2. \A d \in Donations : DonationText(d) \in Texts
  BY DEF Texts
<1>3. \A text \in Custom : text \in Texts
  BY DEF Texts
<1>4. CASE DeskCalls
  BY <1>2, <1>3, <1>4, BuildInv, WalletInv, AnswerFileInv, SignInv, ReceiveInv DEF DeskCalls
<1>. QED
  BY <1>1, <1>4, DeskRunsInv DEF DeskNext

-----------------------------------------------------------------------------
(* The vault *)

LEMMA NameTypes ==
  /\ Pairs \subseteq SecretNames /\ Pairs \subseteq PublicNames
  /\ "admin" \in SecretNames /\ "admin" \notin Pairs /\ "issuing" \in PublicNames
  /\ "master" \in Pairs /\ "distribution" \in Pairs /\ "issuing" \notin Pairs
  BY DEF Pairs, SecretNames, PublicNames

LEMMA EncryptType ==
  ASSUME NEW p \in Passwords, NEW s \in Keys
  PROVE  Encrypt(p, s) \in Ciphers /\ Encrypt(p, s).secret = s
  BY DEF Encrypt, Ciphers

\* Vaults without a pair.
LEMMA NewVaultMatch ==
  /\ NewVault \in Vaults /\ \A h : Match(NewVault, h)
  /\ \A p \in Passwords : WithPassword(p) \in Vaults /\ \A h : Match(WithPassword(p), h)
  BY VaultAssumption, NameTypes DEF NewVault, WithPassword, Vaults, Match

LEMMA FromEnvMatch ==
  ASSUME env \in Env
  PROVE  FromEnv(env) \in Vaults /\ \A h : Match(FromEnv(env), h)
<1>. DEFINE v == FromEnv(env)
<1>1. v = [manager |-> env.password, publics |-> NewVault.publics,
           secrets |-> [n \in SecretNames |-> IF n = "admin" THEN env.adminEncrypted ELSE None]]
  BY DEF FromEnv
<1>2. /\ v.secrets \in [SecretNames -> Ciphers \cup {None, Cut}]
      /\ \A n \in Pairs : v.secrets[n] = None
  BY <1>1, NameTypes DEF Env
<1>3. v.publics \in [PublicNames -> Keys \cup {None, Cut}]
  BY <1>1 DEF NewVault
<1>4. v.manager \in Passwords \cup {None}
  BY <1>1 DEF Env
<1>. HIDE DEF v
<1>5. v \in Vaults
  BY <1>1, <1>2, <1>3, <1>4 DEF Vaults
<1>6. \A h : Match(v, h)
  BY <1>2, VaultAssumption, NameTypes DEF Match
<1>. QED
  BY <1>5, <1>6 DEF v

LEMMA StoreSecretFacts ==
  ASSUME NEW v \in Vaults, NEW name \in SecretNames, NEW s \in KeyStrings
  PROVE  LET r == StoreSecret(v, name, s)
         IN  /\ r.ok \in BOOLEAN /\ r.vault \in Vaults
             /\ r.vault.publics = v.publics /\ r.vault.manager = v.manager
             /\ r.ok => s \in Keys /\ r.vault.secrets[name].secret = s
             /\ ~r.ok => r.vault = v
             /\ \A n \in SecretNames \ {name} : r.vault.secrets[n] = v.secrets[n]
<1>1. CASE Valid(s) /\ v.manager # None
  <2>. DEFINE c == Encrypt(v.manager, s)
              w == [v EXCEPT !.secrets[name] = c]
  <2>1. s \in Keys /\ c \in Ciphers /\ c.secret = s
    BY <1>1, EncryptType DEF Valid, Vaults
  <2>2. StoreSecret(v, name, s) = [ok |-> TRUE, vault |-> w]
    BY <1>1 DEF StoreSecret, Stored
  <2>. HIDE DEF c
  <2>3. /\ w.publics = v.publics /\ w.manager = v.manager
        /\ w.secrets = [v.secrets EXCEPT ![name] = c]
        /\ w \in Vaults
    BY <2>1 DEF Vaults
  <2>. HIDE DEF w
  <2>. QED
    BY <2>1, <2>2, <2>3 DEF Vaults
<1>2. CASE ~(Valid(s) /\ v.manager # None)
  <2>1. StoreSecret(v, name, s) = [ok |-> FALSE, vault |-> v]
    BY <1>2 DEF StoreSecret, Stored
  <2>. QED
    BY <2>1
<1>. QED
  BY <1>1, <1>2

LEMMA StorePublicFacts ==
  ASSUME NEW v \in Vaults, NEW name \in PublicNames, NEW s \in KeyStrings
  PROVE  LET r == StorePublic(v, name, s)
         IN  /\ r.ok \in BOOLEAN /\ r.vault \in Vaults
             /\ r.vault.secrets = v.secrets /\ r.vault.manager = v.manager
             /\ r.ok => s \in Keys /\ r.vault.publics[name] = s
             /\ ~r.ok => r.vault = v
             /\ \A n \in PublicNames \ {name} : r.vault.publics[n] = v.publics[n]
<1>1. CASE Valid(s)
  <2>. DEFINE w == [v EXCEPT !.publics[name] = s]
  <2>1. StorePublic(v, name, s) = [ok |-> TRUE, vault |-> w]
    BY <1>1 DEF StorePublic, Stored
  <2>2. /\ w.secrets = v.secrets /\ w.manager = v.manager
        /\ w.publics = [v.publics EXCEPT ![name] = s] /\ w \in Vaults
    BY <1>1 DEF Vaults, Valid
  <2>. HIDE DEF w
  <2>. QED
    BY <1>1, <2>1, <2>2 DEF Vaults, Valid
<1>2. CASE ~Valid(s)
  <2>1. StorePublic(v, name, s) = [ok |-> FALSE, vault |-> v]
    BY <1>2 DEF StorePublic, Stored
  <2>. QED
    BY <2>1
<1>. QED
  BY <1>1, <1>2

\* A store that goes through leaves a pair that belongs together; one that fails
\* touches the entries of its own pair only.
LEMMA StorePairMatch ==
  ASSUME NEW v \in Vaults, NEW h, Match(v, h), NEW name \in Pairs, NEW kp \in KeyPairs
  PROVE  LET r == StorePair(v, name, kp)
         IN  /\ r.ok \in BOOLEAN /\ r.vault \in Vaults
             /\ r.ok => Match(r.vault, h \ {name})
             /\ ~r.ok => Match(r.vault, h \cup {name})
<1>. DEFINE Apart(w) ==
       /\ \A n \in SecretNames \ {name} : w.secrets[n] = v.secrets[n]
       /\ \A n \in Pairs \ {name} : w.publics[n] = v.publics[n]
       /\ name # "distribution" => w.publics["issuing"] = v.publics["issuing"]
<1>0. /\ kp.public \in KeyStrings /\ kp.secret \in KeyStrings /\ kp.issuing \in KeyStrings
      /\ kp.public \in Keys /\ kp.secret \in Keys =>
           kp.public = kp.secret /\ kp.issuing # kp.public
  BY ToolsAssumption
<1>1. ASSUME NEW w, Apart(w) PROVE Match(w, h \cup {name})
  BY <1>1, NameTypes DEF Match
<1>2. CASE name = "master"
  <2>. DEFINE a == StoreSecret(v, "master", kp.secret)
              b == StorePublic(a.vault, "master", kp.public)
              r == StorePair(v, name, kp)
  <2>1. /\ a.ok \in BOOLEAN /\ a.vault \in Vaults /\ a.vault.publics = v.publics
        /\ a.ok => kp.secret \in Keys /\ a.vault.secrets["master"].secret = kp.secret
        /\ ~a.ok => a.vault = v
        /\ \A n \in SecretNames \ {"master"} : a.vault.secrets[n] = v.secrets[n]
    BY <1>0, StoreSecretFacts, NameTypes
  <2>2. r = IF ~a.ok THEN a ELSE b
    BY <1>2 DEF StorePair, StoreMaster
  <2>. HIDE DEF a
  <2>3. /\ b.ok \in BOOLEAN /\ b.vault \in Vaults /\ b.vault.secrets = a.vault.secrets
        /\ b.ok => kp.public \in Keys /\ b.vault.publics["master"] = kp.public
        /\ ~b.ok => b.vault = a.vault
        /\ \A n \in PublicNames \ {"master"} : b.vault.publics[n] = a.vault.publics[n]
    BY <1>0, <2>1, StorePublicFacts, NameTypes
  <2>. HIDE DEF b, r
  <2>4. r.ok \in BOOLEAN /\ r.vault \in Vaults /\ Apart(r.vault)
    BY <1>2, <2>1, <2>2, <2>3, NameTypes
  <2>5. r.ok => r.vault.secrets["master"].secret = r.vault.publics["master"]
    BY <1>0, <2>1, <2>2, <2>3
  <2>6. r.ok => Match(r.vault, h \ {name})
    BY <1>2, <2>4, <2>5, NameTypes DEF Match
  <2>. QED
    BY <1>1, <2>4, <2>6 DEF r
<1>3. CASE name = "distribution"
  <2>. DEFINE a == StoreSecret(v, "distribution", kp.secret)
              b == StorePublic(a.vault, "distribution", kp.public)
              c == StorePublic(b.vault, "issuing", kp.issuing)
              r == StorePair(v, name, kp)
  <2>1. /\ a.ok \in BOOLEAN /\ a.vault \in Vaults /\ a.vault.publics = v.publics
        /\ a.ok => kp.secret \in Keys /\ a.vault.secrets["distribution"].secret = kp.secret
        /\ ~a.ok => a.vault = v
        /\ \A n \in SecretNames \ {"distribution"} : a.vault.secrets[n] = v.secrets[n]
    BY <1>0, StoreSecretFacts, NameTypes
  <2>2. r = IF ~a.ok THEN a ELSE IF ~b.ok THEN b ELSE c
    BY <1>3 DEF StorePair, StoreDistribution
  <2>. HIDE DEF a
  <2>3. /\ b.ok \in BOOLEAN /\ b.vault \in Vaults /\ b.vault.secrets = a.vault.secrets
        /\ b.ok => kp.public \in Keys /\ b.vault.publics["distribution"] = kp.public
        /\ ~b.ok => b.vault = a.vault
        /\ \A n \in PublicNames \ {"distribution"} : b.vault.publics[n] = a.vault.publics[n]
    BY <1>0, <2>1, StorePublicFacts, NameTypes
  <2>. HIDE DEF b
  <2>4. /\ c.ok \in BOOLEAN /\ c.vault \in Vaults /\ c.vault.secrets = b.vault.secrets
        /\ c.ok => kp.issuing \in Keys /\ c.vault.publics["issuing"] = kp.issuing
        /\ ~c.ok => c.vault = b.vault
        /\ \A n \in PublicNames \ {"issuing"} : c.vault.publics[n] = b.vault.publics[n]
    BY <1>0, <2>3, StorePublicFacts, NameTypes
  <2>. HIDE DEF c, r
  <2>5. r.ok \in BOOLEAN /\ r.vault \in Vaults
    BY <2>1, <2>2, <2>3, <2>4
  <2>6. Apart(r.vault)
    BY <1>3, <2>1, <2>2, <2>3, <2>4, NameTypes
  <2>7. r.ok => /\ r.vault.secrets["distribution"].secret = r.vault.publics["distribution"]
                /\ r.vault.publics["issuing"] # r.vault.publics["distribution"]
    BY <1>0, <2>1, <2>2, <2>3, <2>4, NameTypes
  <2>8. r.ok => Match(r.vault, h \ {name})
    BY <1>3, <2>6, <2>7, NameTypes DEF Match
  <2>. QED
    BY <1>1, <2>5, <2>6, <2>8 DEF r
<1>. QED
  BY <1>2, <1>3 DEF Pairs

\* What a stopped write leaves in the file matches what was being written.
LEMMA TornMatch ==
  ASSUME NEW v \in Vaults, NEW h, Match(v, h), NEW f \in TornFiles(v)
  PROVE  f \in VaultFiles /\ Match(f, h)
<1>1. /\ v.publics \in [PublicNames -> Keys \cup {None, Cut}]
      /\ v.secrets \in [SecretNames -> Ciphers \cup {None, Cut}]
  BY DEF Vaults
<1>2. CASE \E p \in Beginnings(v.publics) : f = [publics |-> p, secrets |-> NewVault.secrets]
  <2>1. PICK p \in Beginnings(v.publics) : f = [publics |-> p, secrets |-> NewVault.secrets]
    BY <1>2
  <2>2. p \in [PublicNames -> Keys \cup {None, Cut}]
    BY <1>1 DEF Beginnings
  <2>3. NewVault.secrets = [n \in SecretNames |-> None]
    BY DEF NewVault
  <2>. QED
    BY <2>1, <2>2, <2>3, VaultAssumption, NameTypes DEF VaultFiles, Match
<1>3. CASE \E s \in Beginnings(v.secrets) : f = [publics |-> v.publics, secrets |-> s]
  <2>1. PICK s \in Beginnings(v.secrets) : f = [publics |-> v.publics, secrets |-> s]
    BY <1>3
  <2>2. /\ s \in [SecretNames -> Ciphers \cup {None, Cut}]
        /\ \A n \in SecretNames : s[n] \in {v.secrets[n], None, Cut}
    BY <1>1 DEF Beginnings
  <2>3. \A n \in SecretNames : s[n] \in Ciphers => s[n] = v.secrets[n]
    BY <2>2, VaultAssumption
  <2>. QED
    BY <1>1, <2>1, <2>2, <2>3, NameTypes DEF VaultFiles, Match
<1>. QED
  BY <1>2, <1>3 DEF TornFiles

LEMMA BeginSaveInv ==
  ASSUME VaultInv, env' \in Env, NEW v \in Vaults, NEW h \in SUBSET Pairs, Match(v, h),
         NEW by \in {"command", "keeper"}, BeginSave(v, h, by)
  PROVE  VaultInv'
<1>1. vaultFile' \in VaultFiles /\ Match(vaultFile', h)
  BY TornMatch DEF BeginSave
<1>2. /\ half' \in [memory : SUBSET Pairs, file : SUBSET Pairs]
      /\ half'.file = h /\ half'.memory = half.memory
  BY DEF BeginSave, VaultInv, VaultTypes
<1>3. saving' \in Saves /\ saving'.vault = v /\ saving'.half = h
  BY DEF BeginSave, Saves
<1>4. keeper' = keeper
  BY DEF BeginSave
<1>. QED
  BY <1>1, <1>2, <1>3, <1>4 DEF VaultInv, VaultTypes, Match

LEMMA EndSaveInv ==
  ASSUME VaultInv, env' \in Env, FinishSave \/ StopSave
  PROVE  VaultInv'
<1>1. saving \in Saves /\ saving.vault \in Vaults
  BY DEF VaultInv, VaultTypes, FinishSave, StopSave, Saves
<1>2. saving' = None /\ UNCHANGED <<keeper, half>>
  BY DEF FinishSave, StopSave
<1>3. CASE FinishSave
  <2>1. vaultFile' = [publics |-> saving.vault.publics, secrets |-> saving.vault.secrets]
    BY <1>3 DEF FinishSave, SavedFile
  <2>2. vaultFile' \in VaultFiles /\ Match(vaultFile', half.file)
    BY <1>1, <1>3, <2>1 DEF VaultInv, FinishSave, Match, VaultFiles, Vaults
  <2>. QED
    BY <1>2, <2>2 DEF VaultInv, VaultTypes, Match
<1>4. CASE StopSave
  BY <1>2, <1>4 DEF StopSave, VaultInv, VaultTypes, Match
<1>. QED
  BY <1>3, <1>4

LEMMA KeeperDoesInv ==
  ASSUME VaultInv, env' \in Env, NEW v \in Vaults, NEW h \in SUBSET Pairs, Match(v, h),
         KeeperDoes(v, h)
  PROVE  VaultInv'
<1>1. /\ half' \in [memory : SUBSET Pairs, file : SUBSET Pairs]
      /\ half'.memory = h /\ half'.file = half.file
  BY DEF KeeperDoes, VaultInv, VaultTypes
<1>2. keeper' = v /\ UNCHANGED <<vaultFile, saving>>
  BY DEF KeeperDoes
<1>. QED
  BY <1>1, <1>2 DEF VaultInv, VaultTypes, Match

LEMMA KeeperLoadInv ==
  ASSUME VaultInv, env' \in Env, NEW p \in Passwords, KeeperLoad(p)
  PROVE  VaultInv'
<1>. DEFINE v == LoadFromFile(vaultFile, p)
<1>1. vaultFile \in VaultFiles /\ Match(vaultFile, half.file)
  BY DEF KeeperLoad, VaultInv, VaultTypes
<1>2. v \in Vaults /\ v.publics = vaultFile.publics /\ v.secrets = vaultFile.secrets
  BY <1>1 DEF LoadFromFile, Vaults, VaultFiles
<1>3. KeeperDoes(v, half.file) /\ half.file \in SUBSET Pairs
  BY DEF KeeperLoad, VaultInv, VaultTypes
<1>. HIDE DEF v
<1>4. Match(v, half.file)
  BY <1>1, <1>2 DEF Match
<1>. QED
  BY <1>2, <1>3, <1>4, KeeperDoesInv

LEMMA KeeperStoreInv ==
  ASSUME VaultInv, env' \in Env, NEW name \in Pairs, NEW kp \in KeyPairs, KeeperStore(name, kp)
  PROVE  VaultInv'
<1>. DEFINE r == StorePair(keeper, name, kp)
            h == IF r.ok THEN half.memory \ {name}
                 ELSE IF r.vault # keeper THEN half.memory \cup {name} ELSE half.memory
<1>1. /\ keeper \in Vaults /\ Match(keeper, half.memory) /\ half.memory \in SUBSET Pairs
  BY DEF VaultInv, VaultTypes
<1>2. /\ r.ok \in BOOLEAN /\ r.vault \in Vaults
      /\ r.ok => Match(r.vault, half.memory \ {name})
      /\ ~r.ok => Match(r.vault, half.memory \cup {name})
  BY <1>1, StorePairMatch
<1>3. KeeperDoes(r.vault, h)
  BY DEF KeeperStore
<1>. HIDE DEF r
<1>4. h \in SUBSET Pairs /\ Match(r.vault, h)
  BY <1>1, <1>2
<1>. QED
  BY <1>2, <1>3, <1>4, KeeperDoesInv

LEMMA VaultStep ==
  ASSUME VaultInv, env' \in Env, [VaultNext]_vaultVars
  PROVE  VaultInv'
<1>1. env \in Env /\ keeper \in Vaults /\ half.memory \in SUBSET Pairs /\ Match(keeper, half.memory)
  BY DEF VaultInv, VaultTypes
<1>2. CASE UNCHANGED vaultVars
  BY <1>2 DEF vaultVars, VaultInv, VaultTypes, Match
<1>3. CASE VaultSave
  BY <1>1, <1>3, FromEnvMatch, BeginSaveInv DEF VaultSave
<1>4. CASE KeeperSave
  BY <1>1, <1>4, BeginSaveInv DEF KeeperSave
<1>5. ASSUME NEW p \in Passwords, KeeperOpen(p) PROVE VaultInv'
  BY <1>5, NewVaultMatch, KeeperDoesInv DEF KeeperOpen
<1>. QED
  BY <1>2, <1>3, <1>4, <1>5, EndSaveInv, KeeperLoadInv, KeeperStoreInv DEF VaultNext, KeeperCall

\* Pairs that match are read out as pairs.
LEMMA MatchReads ==
  ASSUME VaultInv
  PROVE  PairsMatch
<1>1. /\ keeper \in Vaults /\ Match(keeper, half.memory)
      /\ \A n \in SecretNames : keeper.secrets[n] \in Ciphers \cup {None, Cut}
  BY DEF VaultInv, VaultTypes, Vaults
<1>2. ASSUME NEW n \in SecretNames, RetrieveSecret(keeper, n) # None
      PROVE  keeper.secrets[n] \in Ciphers /\ RetrieveSecret(keeper, n) = keeper.secrets[n].secret
  BY <1>1, <1>2 DEF RetrieveSecret, Decrypt
<1>3. ASSUME LoadMaster(keeper) # None, "master" \notin half.memory
      PROVE  LoadMaster(keeper).public = LoadMaster(keeper).secret
  <2>. DEFINE public == keeper.publics["master"]
              secret == RetrieveSecret(keeper, "master")
  <2>1. None \notin {public, secret} /\ LoadMaster(keeper) = [public |-> public, secret |-> secret]
    BY <1>3 DEF LoadMaster
  <2>. QED
    BY <1>1, <1>2, <1>3, <2>1, NameTypes DEF Match
<1>4. ASSUME LoadDistribution(keeper) # None, "distribution" \notin half.memory
      PROVE  /\ LoadDistribution(keeper).public = LoadDistribution(keeper).secret
             /\ LoadDistribution(keeper).issuing # LoadDistribution(keeper).public
  <2>. DEFINE public  == keeper.publics["distribution"]
              secret  == RetrieveSecret(keeper, "distribution")
              issuing == keeper.publics["issuing"]
  <2>1. /\ None \notin {public, secret, issuing}
        /\ LoadDistribution(keeper) = [public |-> public, secret |-> secret, issuing |-> issuing]
    BY <1>4 DEF LoadDistribution
  <2>. QED
    BY <1>1, <1>2, <1>4, <2>1, NameTypes DEF Match
<1>. QED
  BY <1>3, <1>4 DEF PairsMatch

-----------------------------------------------------------------------------
(* Who signs *)

LEMMA ChosenFacts ==
  ASSUME NEW s, NEW source, Chosen(s, source) # None
  PROVE  /\ s \in Keys /\ Chosen(s, source).secret = s /\ Chosen(s, source).source = source
         /\ Chosen(s, source) = [secret |-> s, source |-> source]
  BY DEF Chosen, Valid

LEMMA InvokeSigns ==
  ASSUME env \in Env, NEW opts \in InvokeOptions, Invoke(opts)
  PROVE  /\ signed' \in [key : Keys, source : {"flag", "settings", "vault"}, contract : Contracts]
         /\ signed'.source # "flag" =>
              IF env.adminSecret \notin {None, Blank}
              THEN signed'.key = env.adminSecret
              ELSE /\ env.password # None
                   /\ env.adminEncrypted = Encrypt(env.password, signed'.key)
<1>. DEFINE v      == InvokeVault
            chosen == ResolveSourceKey(opts.sourceKey, env.adminSecret, v)
            opens  == {n \in {"admin", "master"} : RetrieveSecret(v, n) # None}
<1>1. /\ v.manager = env.password
      /\ v.secrets = [n \in SecretNames |-> IF n = "admin" THEN env.adminEncrypted ELSE None]
  BY DEF InvokeVault, FromEnv
<1>2. /\ RetrieveSecret(v, "admin") = Decrypt(env.password, env.adminEncrypted)
      /\ RetrieveSecret(v, "master") = Decrypt(env.password, None)
  BY <1>1, NameTypes DEF RetrieveSecret
<1>3. "master" \notin opens
  BY <1>2 DEF Decrypt
<1>4. /\ idFile \in Contracts /\ chosen # None
      /\ signed' = [key |-> chosen.secret, source |-> chosen.source, contract |-> idFile]
  BY DEF Invoke
<1>5. chosen = IF opts.sourceKey # None THEN Chosen(opts.sourceKey, "flag")
               ELSE IF env.adminSecret \notin {None, Blank} THEN Chosen(env.adminSecret, "settings")
               ELSE IF "admin" \in opens THEN Chosen(RetrieveSecret(v, "admin"), "vault")
               ELSE None
  BY <1>3 DEF ResolveSourceKey
<1>. HIDE DEF v, chosen
<1>6. CASE opts.sourceKey # None
  BY <1>4, <1>5, <1>6, ChosenFacts
<1>7. CASE opts.sourceKey = None /\ env.adminSecret \notin {None, Blank}
  BY <1>4, <1>5, <1>7, ChosenFacts
<1>8. CASE opts.sourceKey = None /\ env.adminSecret \in {None, Blank}
  <2>. DEFINE key == RetrieveSecret(v, "admin")
  <2>1. key # None /\ chosen = Chosen(key, "vault")
    BY <1>4, <1>5, <1>8
  <2>2. /\ env.adminEncrypted \in Ciphers /\ env.password # None
        /\ env.adminEncrypted.password = env.password /\ env.adminEncrypted.secret = key
    BY <1>2, <2>1 DEF Decrypt, Env
  <2>. HIDE DEF key
  <2>3. env.adminEncrypted = Encrypt(env.password, key)
    BY <2>2 DEF Encrypt, Ciphers
  <2>. QED
    BY <1>4, <1>8, <2>1, <2>2, <2>3, ChosenFacts
<1>. QED
  BY <1>6, <1>7, <1>8

LEMMA SignsStep ==
  ASSUME env \in Env, [Next]_vars
  PROVE  signed' # signed /\ signed'.source # "flag" =>
           IF env.adminSecret \notin {None, Blank}
           THEN signed'.key = env.adminSecret
           ELSE /\ env.password # None
                /\ env.adminEncrypted = Encrypt(env.password, signed'.key)
  BY SettingsParts, InvokeSigns

-----------------------------------------------------------------------------
(* The theorems *)

Rest ==
    /\ signed \in [key : Keys, source : {"flag", "settings", "vault"}, contract : Contracts]
                   \cup {None}
    /\ left \in Budgets

ToolsInv == DeployInv /\ DeskInv /\ VaultInv /\ Rest

LEMMA InitInv == Init => ToolsInv
<1>. SUFFICES ASSUME Init PROVE ToolsInv
  OBVIOUS
<1>1. PICK start \in Starts :
        /\ DeployInit(start.deployed) /\ env = start.env
        /\ keeper = WithPassword(start.password) /\ left = start.left
  BY DEF Init
<1>2. /\ start.env \in Env /\ start.deployed \in Networks \cup {Absent}
      /\ start.password \in Passwords /\ start.left \in Budgets
  BY ToolsAssumption
<1>3. DeployInv
  <2>1. 1 \in Contracts
    BY DeploymentsAssumption DEF Contracts
  <2>2. DeployTypeOK
    BY <1>1, <1>2, <2>1 DEF DeployInit, DeployTypeOK, Runs
  <2>3. RunsHold
    BY <1>1 DEF DeployInit, RunsHold
  <2>4. RecordsTellTruth
    BY <1>1, <1>2, <2>1, DeploymentsAssumption DEF DeployInit, RecordsTellTruth
  <2>. QED
    BY <2>2, <2>3, <2>4 DEF DeployInv
<1>4. DeskInv
  BY DeskAssumption DEF Init, DeskInit, DeskInv, DeskTypeOK, Ids, OnlyWhatWasRequested
<1>5. VaultInv
  <2>1. half = [memory |-> {}, file |-> {}] /\ saving = None /\ vaultFile = None
    BY DEF Init
  <2>. QED
    BY <1>1, <1>2, <2>1, NewVaultMatch DEF VaultInv, VaultTypes
<1>. QED
  BY <1>1, <1>2, <1>3, <1>4, <1>5 DEF Init, ToolsInv, Rest

LEMMA LeftType ==
  ASSUME left \in Budgets, [Next]_vars
  PROVE  left' \in Budgets
<1>1. ASSUME NEW on \in {"command", "keeper", "desk"}, Spend(on) PROVE left' \in Budgets
  BY <1>1 DEF Spend, Budgets
<1>. QED
  BY <1>1 DEF Next, vars

LEMMA StepInv == ToolsInv /\ [Next]_vars => ToolsInv'
<1>. SUFFICES ASSUME ToolsInv, [Next]_vars PROVE ToolsInv'
  OBVIOUS
<1>1. env \in Env /\ env' \in Env
  BY EnvType DEF ToolsInv, VaultInv, VaultTypes
<1>2. DeployInv'
  BY <1>1, DeployParts, DeployStep DEF ToolsInv
<1>3. DeskInv'
  BY DeskParts, DeskStep DEF ToolsInv
<1>4. VaultInv'
  BY <1>1, VaultParts, VaultStep DEF ToolsInv
<1>5. Rest'
  BY <1>1, SettingsParts, InvokeSigns, LeftType DEF ToolsInv, Rest
<1>. QED
  BY <1>2, <1>3, <1>4, <1>5 DEF ToolsInv

LEMMA ToolsInductive == Spec => []ToolsInv
  BY InitInv, StepInv, PTL DEF Spec

\* Files, settings, runs, vaults, requests and answers keep their types, for any
\* operators, networks, keys and settings (deploy, invoke, keymanager, signing,
\* response).
THEOREM ToolsTypeCorrect == Spec => []TypeOK
<1>1. ToolsInv => TypeOK
  BY DEF ToolsInv, Rest, DeployInv, DeskInv, VaultInv, VaultTypes, Saves, TypeOK
<1>. QED
  BY <1>1, ToolsInductive, PTL

\* A record names a contract of its own network, and the contract-id file one
\* whose record was written, for any number of operators deploying on any
\* number of networks (deploy.rs: run).
THEOREM ToolsRecordsTellTruth == Spec => []RecordsTellTruth
<1>1. ToolsInv => RecordsTellTruth
  BY DEF ToolsInv, DeployInv
<1>. QED
  BY <1>1, ToolsInductive, PTL

LEMMA CountInit == Init => CountInv
<1>. SUFFICES ASSUME Init, NEW n \in Networks
              PROVE  /\ Count(n) <= 1 + excuses[n]
                     /\ Count(n) <= excuses[n] \/ Deciding(n) \/ ExistingContractId(n)
  BY DEF CountInv
<1>1. PICK start \in Starts : DeployInit(start.deployed)
  BY DEF Init
<1>2. Checked(n) = {} /\ excuses[n] = 0
  BY <1>1 DEF DeployInit, Checked, At
<1>3. \/ chain[n] = {}
      \/ chain[n] = {1} /\ records[n] = 1
  BY <1>1 DEF DeployInit
<1>4. 1 \in Contracts
  BY DeploymentsAssumption DEF Contracts
<1>5. Cardinality({}) = 0 /\ Cardinality({1}) = 1
  BY FS_EmptySet, FS_Singleton
<1>. QED
  BY <1>2, <1>3, <1>4, <1>5, DeploymentsAssumption DEF Count, ExistingContractId

\* A network gets one contract, and one more per reason to deploy again, for any
\* number of operators and networks (deploy.rs: run, step 2).
THEOREM ToolsOneContractUnlessExcused == Spec => []OneContractUnlessExcused
<1>1. ToolsInv /\ ToolsInv' /\ CountInv /\ [Next]_vars => CountInv'
  BY DeployParts, CountStep DEF ToolsInv, VaultInv, VaultTypes
<1>2. ToolsInv /\ CountInv => OneContractUnlessExcused
  <2>. SUFFICES ASSUME ToolsInv, CountInv, NEW n \in Networks
                PROVE  Cardinality(chain[n]) <= 1 + excuses[n]
    BY DEF OneContractUnlessExcused
  <2>1. chain[n] \in SUBSET Contracts /\ Checked(n) \in SUBSET Operators /\ excuses[n] \in Nat
    BY DEF ToolsInv, DeployInv, DeployTypeOK, Checked
  <2>2. Cardinality(chain[n]) \in Nat /\ Cardinality(Checked(n)) \in Nat
    BY <2>1, ContractSets, OperatorSets
  <2>. QED
    BY <2>1, <2>2 DEF CountInv, Count
<1>. QED
  BY <1>1, <1>2, CountInit, ToolsInductive, PTL DEF Spec

\* What can be read out of the vault as a pair is one, unless its last store
\* failed half way, for any keys and passwords (keypair_manager.rs,
\* encrypted_vault.rs).
THEOREM ToolsPairsMatch == Spec => []PairsMatch
<1>1. ToolsInv => PairsMatch
  BY MatchReads DEF ToolsInv
<1>. QED
  BY <1>1, ToolsInductive, PTL

\* What reaches submission, and what a receiver takes for signed, was requested,
\* for any number of requests and answers (response_handler.rs,
\* signing_request.rs).
THEOREM ToolsOnlyWhatWasRequested == Spec => []OnlyWhatWasRequested
<1>1. ToolsInv => OnlyWhatWasRequested
  BY DEF ToolsInv, DeskInv
<1>. QED
  BY <1>1, ToolsInductive, PTL

\* Without the flag the admin signs, for any settings (invoke.rs:
\* resolve_source_key).
THEOREM ToolsAdminSigns == Spec => AdminSigns
<1>1. ToolsInv /\ [Next]_vars =>
        [signed' # signed /\ signed'.source # "flag" =>
           IF env.adminSecret \notin {None, Blank}
           THEN signed'.key = env.adminSecret
           ELSE /\ env.password # None
                /\ env.adminEncrypted = Encrypt(env.password, signed'.key)]_vars
  BY SignsStep DEF ToolsInv, VaultInv, VaultTypes
<1>. QED
  BY <1>1, ToolsInductive, PTL DEF Spec, AdminSigns
=============================================================================
