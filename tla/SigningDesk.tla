----------------------------- MODULE SigningDesk -----------------------------
(***************************************************************************)
(* Signing requests and their answers (crates/tools/src/signing_request.rs *)
(* and response_handler.rs): a request is built and exported to a wallet,  *)
(* the wallet's answer is parsed and saved to a file, and the file is      *)
(* loaded for submission.  The tool keeps no list of its requests: nothing *)
(* but the texts themselves ties an answer to one.  Two people may save to *)
(* the same file at once.                                                  *)
(*                                                                         *)
(* A service signs requests itself and sends out the result, which a       *)
(* receiver verifies.                                                      *)
(*                                                                         *)
(* A transaction text is a sequence.  The clock counts milliseconds, from  *)
(* which request ids are made.  The network and the description of a       *)
(* request are left out: nothing after its construction depends on them.   *)
(***************************************************************************)
EXTENDS Naturals, Sequences

CONSTANTS
    Donations,    \* [donor, campaign, amount], the two numbers as digits
    Custom,       \* texts given on the command line
    Wallets,      \* accounts that sign in a wallet
    Servers,      \* keys a service signs with, and their accounts
    Missing,      \* a field, or a file, that is not there
    Garbled,      \* a file that does not parse
    MaxClock      \* bound: milliseconds that pass

ASSUME DeskAssumption == MaxClock \in Nat /\ Missing \notin Servers

\* The donor, the campaign and the amount, one right after the other.
DonationText(d) == <<d.donor>> \o d.campaign \o d.amount

Texts == {DonationText(d) : d \in Donations} \cup Custom
Ids == 0..MaxClock

VARIABLES
    clock,
    requests,     \* every request that was built
    answers,      \* every answer a wallet gave
    savers,       \* answers that are being written to the file
    file,         \* the file of the signed transaction: Missing, Garbled or an answer
    submitted,    \* what `response submit` last read, or Missing
    signatures,   \* every transaction the service signed
    verified      \* the payload a receiver last found to be signed, or Missing

deskVars == <<clock, requests, answers, savers, file, submitted, signatures, verified>>

Requests == [id : Ids, text : Texts]
Answers ==
    [requestId : Ids \cup {Missing}, text : Texts \cup {Missing},
     signer : Wallets \cup {Missing}]
SignedTransactions == [requestId : Ids, text : Texts, signer : Wallets \cup {"unknown"}]
ServerSigned ==
    [requestId : Ids, text : Texts, signature : [by : Servers, over : Texts],
     signer : Servers \cup {Missing}]

-----------------------------------------------------------------------------
(* Requests *)

\* An empty text is refused.  Requests of the same millisecond share an id.
Build(text) ==
    /\ text # <<>>
    /\ requests' = requests \cup {[id |-> clock, text |-> text]}
    /\ UNCHANGED <<clock, answers, savers, file, submitted, signatures, verified>>

\* What the wallet is given, valid or not: the export does not look.
WalletFormat(r) == [requestId |-> r.id, text |-> r.text]

\* A wallet answers a request it was given, perhaps with fields left out, and
\* perhaps after other answers.
WalletAnswers(r, wallet) ==
    /\ \E id \in {WalletFormat(r).requestId, Missing},
          text \in {WalletFormat(r).text, Missing}, signer \in {wallet, Missing} :
         answers' = answers \cup {[requestId |-> id, text |-> text, signer |-> signer]}
    /\ UNCHANGED <<clock, requests, savers, file, submitted, signatures, verified>>

Tick ==
    /\ clock < MaxClock
    /\ clock' = clock + 1
    /\ UNCHANGED <<requests, answers, savers, file, submitted, signatures, verified>>

-----------------------------------------------------------------------------
(* Answers *)

\* Mutant: the transaction gets an id of its own.
ParseResponseAfresh(a) ==
    [requestId |-> clock, text |-> a.text,
     signer |-> IF a.signer = Missing THEN "unknown" ELSE a.signer]

\* An answer without an id or a text is an error, one without a signer is not.
ParseResponse(a) ==
    [requestId |-> a.requestId, text |-> a.text,
     signer |-> IF a.signer = Missing THEN "unknown" ELSE a.signer]

\* The file is emptied, then written.
BeginAnswerFile(a) ==
    /\ Missing \notin {a.requestId, a.text}
    /\ savers' = savers \cup {ParseResponse(a)}
    /\ file' = Garbled
    /\ UNCHANGED <<clock, requests, answers, submitted, signatures, verified>>

\* A file that another save has written since may become a mixture.
FinishAnswerFile(tx) ==
    /\ savers' = savers \ {tx}
    /\ \/ file' = tx
       \/ file # Garbled /\ file' = Garbled
    /\ UNCHANGED <<clock, requests, answers, submitted, signatures, verified>>

StopAnswerFile(tx) ==
    /\ savers' = savers \ {tx}
    /\ UNCHANGED <<clock, requests, answers, file, submitted, signatures, verified>>

\* Loading checks that the file parses, and nothing else.
Submit ==
    /\ file \notin {Missing, Garbled}
    /\ submitted' = file
    /\ UNCHANGED <<clock, requests, answers, savers, file, signatures, verified>>

-----------------------------------------------------------------------------
(* Signatures of the service *)

SignServerSide(r, key) ==
    /\ signatures' = signatures \cup
         {[requestId |-> r.id, text |-> r.text, signature |-> [by |-> key, over |-> r.text],
           signer |-> key]}
    /\ UNCHANGED <<clock, requests, answers, savers, file, submitted, verified>>

\* The signature covers the text, and neither the request id nor the time.
Verify(p) == p.signer # Missing /\ p.signature = [by |-> p.signer, over |-> p.text]

\* What arrives was signed once, but its other fields may be those of another
\* request, or be missing as in payloads of earlier versions.
Receive(signed, id, text, signer) ==
    LET p == [signed EXCEPT !.requestId = id, !.text = text, !.signer = signer]
    IN  /\ Verify(p)
        /\ verified' = p
        /\ UNCHANGED <<clock, requests, answers, savers, file, submitted, signatures>>

-----------------------------------------------------------------------------

DeskInit ==
    /\ clock = 0
    /\ requests = {} /\ answers = {} /\ savers = {} /\ signatures = {}
    /\ file = Missing /\ submitted = Missing /\ verified = Missing

\* What the people at the desk, the wallets and the service do.
DeskCalls ==
    \/ \E d \in Donations : Build(DonationText(d))
    \/ \E text \in Custom : Build(text)
    \/ \E r \in requests, wallet \in Wallets : WalletAnswers(r, wallet)
    \/ \E a \in answers : BeginAnswerFile(a)
    \/ \E r \in requests, key \in Servers : SignServerSide(r, key)
    \/ \E signed \in signatures, r \in requests :
         \E signer \in {signed.signer, Missing} : Receive(signed, r.id, r.text, signer)

DeskRuns ==
    \/ \E tx \in savers : FinishAnswerFile(tx) \/ StopAnswerFile(tx)
    \/ Submit
    \/ Tick

-----------------------------------------------------------------------------

DeskTypeOK ==
    /\ clock \in Ids
    /\ requests \subseteq Requests
    /\ answers \subseteq Answers
    /\ savers \subseteq SignedTransactions
    /\ file \in SignedTransactions \cup {Missing, Garbled}
    /\ submitted \in SignedTransactions \cup {Missing}
    /\ signatures \subseteq ServerSigned
    /\ verified \in ServerSigned \cup {Missing}

\* Whatever the order in which answers come, are saved over each other, torn
\* and loaded: what reaches submission is one request this tool built, its id
\* and its text together; and what a receiver takes for signed is the text of a
\* request, by the key that signed that text (response_handler.rs:
\* parse_response, save_to_file, load_from_file; signing_request.rs: verify).
OnlyWhatWasRequested ==
    /\ submitted # Missing => [id |-> submitted.requestId, text |-> submitted.text] \in requests
    /\ verified # Missing =>
         \E s \in signatures : s.text = verified.text /\ s.signer = verified.signer
=============================================================================
