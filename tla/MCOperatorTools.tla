--------------------------- MODULE MCOperatorTools ---------------------------
(***************************************************************************)
(* A small instance of the command line tools: two operators, a network    *)
(* both commands know and one that only deploy knows, two key pairs, two   *)
(* donations that read the same, and one custom transaction.               *)
(***************************************************************************)
EXTENDS OperatorTools, TLC

CONSTANTS k1, k2, p1, p2, ann, ben, testnet, sandbox, donor, other

MCPair(public, secret, issuing) ==
    [public |-> public, secret |-> secret, issuing |-> issuing]

\* Two good pairs; one whose public key is none, one whose issuer's key is
\* none; and what `generate` returns.
MCKeyPairs ==
    {MCPair(k1, k1, k2), MCPair(k2, k2, k1), MCPair(Bad, k2, k1), MCPair(k2, k2, Bad),
     GeneratedPair(k1)}

MCEnv(network, adminSecret, password, adminEncrypted) ==
    [network |-> network, adminSecret |-> adminSecret, password |-> password,
     adminEncrypted |-> adminEncrypted]

\* The admin's key in plain; encrypted, with its password and with another; a
\* cipher text that was pasted in part; and a key that is none.
MCSettings ==
    {MCEnv(Absent, k1, None, None),
     MCEnv(sandbox, Blank, p1, Encrypt(p1, k1)),
     MCEnv(testnet, None, p2, Encrypt(p1, k1)),
     MCEnv(Absent, k2, p1, Cut),
     MCEnv(testnet, Bad, p1, Encrypt(p1, k2))}

\* Campaign 1 with amount 11, and campaign 11 with amount 1.
MCDonations ==
    {[donor |-> donor, campaign |-> <<1>>, amount |-> <<1, 1>>],
     [donor |-> donor, campaign |-> <<1, 1>>, amount |-> <<1>>]}

MCCustom == {<<>>, <<other>>}

MCStart(e, deployed, command, keeperCalls, desk) ==
    [env |-> e, deployed |-> deployed, password |-> p1,
     left |-> [command |-> command, keeper |-> keeperCalls, desk |-> desk]]

\* Deploys from a fresh checkout and from one with a contract on testnet; a
\* command beside the keeper; the keeper by itself; the desk by itself.
MCStarts ==
    {MCStart(e, Absent, 3, 0, 0) : e \in MCSettings}
      \cup {MCStart(e, testnet, 2, 0, 0) : e \in MCSettings}
      \cup {MCStart(e, testnet, 1, 3, 0) : e \in MCSettings}
      \cup {MCStart(MCEnv(Absent, k1, None, None), Absent, 0, 5, 0),
            MCStart(MCEnv(Absent, k1, None, None), Absent, 0, 0, 6)}

MCSymmetry == Permutations(Operators)
=============================================================================
