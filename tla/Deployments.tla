----------------------------- MODULE Deployments -----------------------------
(***************************************************************************)
(* The `deploy` command (crates/tools/src/deploy.rs), run by several       *)
(* operators in one checkout: one record file per network, one contract-id *)
(* file for all of them, and nothing that locks either.                    *)
(*                                                                         *)
(* A run checks, calls the stellar program, and writes two files, each of  *)
(* which the write first empties.  It can be killed, or a write fail,      *)
(* between any two of these steps.  A run that gives up before it has      *)
(* changed anything is not a step.                                         *)
(***************************************************************************)
EXTENDS Naturals, FiniteSets

CONSTANTS
    Operators,       \* people at the command line
    Networks,        \* the networks deploy knows
    Absent,          \* no file, no value
    Torn,            \* a file that does not parse
    Noise,           \* a last line of the stellar program that is no contract id
    MaxContracts     \* bound: contracts deployed

Contracts == 1..MaxContracts

ASSUME DeploymentsAssumption ==
    /\ MaxContracts \in Nat \ {0}
    /\ Absent \notin Networks
    /\ Contracts \cap {Absent, Torn, Noise} = {} /\ Noise \notin {Absent, Torn}
    /\ IsFiniteSet(Operators)

\* What the command line can say: a network or none, and --force.
DeployArgs == [network : Networks \cup {Absent}, force : BOOLEAN]

Idle == [pc |-> "idle"]
Runs ==
    {Idle} \cup
    [pc : {"checked", "printed", "recording", "unlinked", "recorded", "naming"}, network : Networks,
     contract : Contracts \cup {Absent, Noise}]

VARIABLES
    records,    \* deployments/<network>.json: the contract it names
    idFile,     \* .orbitchain_contract_id
    chain,      \* the contracts that exist on each network
    runs,       \* each operator's run
    \* What a reader of the history would know:
    recorded,   \* contracts whose record was written to its end
    excuses     \* per network, events that let one more contract be deployed there

deployVars == <<records, idFile, chain, runs, recorded, excuses>>

-----------------------------------------------------------------------------

\* Mutant: a record that does not name a contract is passed over.
ExistingContractOnly(n) == records[n] \in Contracts

\* A record that is missing, or does not parse, reads as "not deployed".
ExistingContractId(n) == records[n] \notin {Absent, Torn}

InFlight(n) == {o \in Operators : runs[o] # Idle /\ runs[o].network = n}
At(o, pc) == runs[o] # Idle /\ runs[o].pc = pc
Goto(o, pc) == runs' = [runs EXCEPT ![o].pc = pc]
Excuse(n) == excuses' = [excuses EXCEPT ![n] = @ + 1]

\* Steps 1 and 2: there is a WASM file, the admin's secret must be set, and
\* there must be no record, or --force.
DeployStart(o, network, force, secretSet) ==
    /\ runs[o] = Idle
    /\ secretSet
    /\ ExistingContractId(network) => force
    /\ runs' = [runs EXCEPT ![o] = [pc |-> "checked", network |-> network, contract |-> Absent]]
    /\ IF force \/ InFlight(network) # {} THEN Excuse(network) ELSE UNCHANGED excuses
    /\ UNCHANGED <<records, idFile, chain, recorded>>

NewContract == Cardinality(UNION {chain[n] : n \in Networks}) + 1
Deploys(n) ==
    /\ NewContract \in Contracts
    /\ chain' = [chain EXCEPT ![n] = @ \cup {NewContract}]

\* Step 3: the stellar program is missing, fails or prints nothing; it may have
\* deployed the contract all the same.
StellarFails(o) ==
    /\ At(o, "checked")
    /\ runs' = [runs EXCEPT ![o] = Idle]
    /\ \/ UNCHANGED <<chain, excuses>>
       \/ Deploys(runs[o].network) /\ Excuse(runs[o].network)
    /\ UNCHANGED <<records, idFile, recorded>>

\* Step 3: the last line that is not empty is taken for the contract's id; one
\* that does not look like an id is only warned about.
StellarDeploys(o) ==
    /\ At(o, "checked")
    /\ Deploys(runs[o].network)
    /\ \E line \in {NewContract, Noise} :
         runs' = [runs EXCEPT ![o] =
                    [pc |-> "printed", network |-> runs[o].network, contract |-> line]]
    /\ UNCHANGED <<records, idFile, recorded, excuses>>

\* Mutant: every network's record has the same name.
OneRecordPath(o) == CHOOSE n \in Networks : TRUE

\* deployments/<network>.json
RecordPath(o) == runs[o].network

\* Step 4: the record is emptied, then written.
BeginRecord(o) ==
    /\ At(o, "printed")
    /\ records' = [records EXCEPT ![RecordPath(o)] = Torn]
    /\ Goto(o, "recording")
    /\ UNCHANGED <<idFile, chain, recorded, excuses>>

\* A record that another run has written since this one emptied it may become
\* a mixture of the two; one that was deleted since is written for nobody.
FinishRecord(o) ==
    LET n == RecordPath(o)
    IN  /\ At(o, "recording") \/ At(o, "unlinked")
        /\ Goto(o, "recorded")
        /\ recorded' = recorded \cup {runs[o].contract}
        /\ UNCHANGED <<idFile, chain>>
        /\ \/ /\ At(o, "recording")
              /\ records' = [records EXCEPT ![n] = runs[o].contract]
              /\ UNCHANGED excuses
           \/ /\ At(o, "recording") /\ records[n] # Torn
              /\ records' = [records EXCEPT ![n] = Torn]
              /\ Excuse(n)
           \/ /\ At(o, "unlinked")
              /\ UNCHANGED <<records, excuses>>

\* Step 4, when the record is written: the contract-id file, the same way.
BeginIdFile(o) ==
    /\ At(o, "recorded")
    /\ idFile' = Torn
    /\ Goto(o, "naming")
    /\ UNCHANGED <<records, chain, recorded, excuses>>

FinishIdFile(o) ==
    /\ At(o, "naming")
    /\ \/ idFile' = runs[o].contract
       \/ idFile # Torn /\ idFile' = Torn      \* a mixture, again
    /\ runs' = [runs EXCEPT ![o] = Idle]
    /\ UNCHANGED <<records, chain, recorded, excuses>>

\* The run is killed, or the write it is about to do fails.
Crash(o) ==
    /\ runs[o] # Idle
    /\ runs' = [runs EXCEPT ![o] = Idle]
    /\ IF runs[o].pc \in {"printed", "recording"}
       THEN Excuse(runs[o].network) ELSE UNCHANGED excuses
    /\ UNCHANGED <<records, idFile, chain, recorded>>

\* "Pass --force (or delete the record) to re-deploy."  A run that has the
\* record open goes on writing to it, out of everyone's sight.
DeleteRecord(n) ==
    /\ records[n] # Absent
    /\ records' = [records EXCEPT ![n] = Absent]
    /\ runs' = [o \in Operators |->
                  IF At(o, "recording") /\ RecordPath(o) = n
                  THEN [runs[o] EXCEPT !.pc = "unlinked"] ELSE runs[o]]
    /\ Excuse(n)
    /\ UNCHANGED <<idFile, chain, recorded>>

\* A fresh checkout, or one from which a contract was deployed on a network.
DeployInit(deployed) ==
    /\ records = [n \in Networks |-> IF n = deployed THEN 1 ELSE Absent]
    /\ idFile = IF deployed = Absent THEN Absent ELSE 1
    /\ chain = [n \in Networks |-> IF n = deployed THEN {1} ELSE {}]
    /\ runs = [o \in Operators |-> Idle]
    /\ recorded = IF deployed = Absent THEN {} ELSE {1}
    /\ excuses = [n \in Networks |-> 0]

\* The steps of a run that has started.
DeployRuns(o) ==
    \/ StellarFails(o) \/ StellarDeploys(o)
    \/ BeginRecord(o) \/ FinishRecord(o) \/ BeginIdFile(o) \/ FinishIdFile(o)
    \/ Crash(o)

-----------------------------------------------------------------------------

DeployTypeOK ==
    /\ records \in [Networks -> Contracts \cup {Absent, Torn, Noise}]
    /\ idFile \in Contracts \cup {Absent, Torn, Noise}
    /\ chain \in [Networks -> SUBSET Contracts]
    /\ runs \in [Operators -> Runs]
    /\ recorded \subseteq Contracts \cup {Noise}
    /\ excuses \in [Networks -> Nat]

\* However deploys of several operators and networks interleave or stop, a
\* record that names a contract names one that exists on the record's own
\* network, and the contract-id file names one whose record was written first
\* (deploy.rs: run, steps 3 and 4).
RecordsTellTruth ==
    /\ \A n \in Networks : records[n] \in Contracts => records[n] \in chain[n]
    /\ idFile \in Contracts => idFile \in recorded

\* "Idempotency": a network gets one contract, and one more for each reason
\* there was to deploy again: a --force, a run that started beside another one
\* of the same network, a contract whose record was never completed, or a
\* deleted record (deploy.rs: run, step 2).
OneContractUnlessExcused ==
    \A n \in Networks : Cardinality(chain[n]) <= 1 + excuses[n]
=============================================================================
