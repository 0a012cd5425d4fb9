---------------------------- MODULE Certification ----------------------------
(***************************************************************************)
(* Reports, receipts and what verifying one against the other says             *)
(* (crates/estamora-certification, crates/estamora-cli: commands/certify.rs,    *)
(* crates/estamora-report: json.rs).                                            *)
(*                                                                         *)
(* A report and a receipt are two files.  They are written one after the other,  *)
(* read one after the other, and anybody may rewrite either at any time.  A       *)
(* digest is taken to name one content, and a signature to be made only by the    *)
(* holder of its key.                                                             *)
(***************************************************************************)
EXTENDS Outcomes, FiniteSets

CONSTANTS
  Missing,     \* no file, no signature, no key
  Garbage,     \* a file, a signature or a key that cannot be decoded
  Hashes,      \* what a report can state as the code hash of its target
  Statuses,    \* the verdicts in play
  Loose,       \* the reports somebody may write in place of another
  Keys,        \* the signing keys
  Strangers,   \* the keys of those who sign whatever they please
  MaxIssues, MaxEdits   \* bounds on the behaviours explored

Reports == [remote : BOOLEAN, code : Hashes, status : Statuses, pinned : BOOLEAN]

\* A digest: of what the document says once it is parsed, not of how it is spelled.
DigestOf(document) == [digest |-> document]
Digests == [digest : Reports]

Receipts   == [remote : BOOLEAN, code : Hashes, status : Statuses, about : Digests]
Signatures == [by : Keys, over : [digest : Receipts]]
Signed     == [algorithm : {"ed25519", "other"}, public : Keys \cup {Missing},
               signature : Signatures \cup {Missing, Garbage}, receipt : Receipts]

ASSUME StatusAssumption == Statuses \subseteq ConformanceStatuses
ASSUME LooseAssumption == Loose \subseteq Reports
ASSUME KeyAssumption == Strangers \subseteq Keys /\ {Missing, Garbage} \cap Keys = {}
ASSUME DocumentAssumption == {Missing, Garbage} \cap (Reports \cup Signed \cup Signatures) = {}
ASSUME BoundAssumption == MaxIssues \in Nat /\ MaxEdits \in Nat

VARIABLES
  report,    \* the report file: what it says when it is parsed, whatever its layout
  receipt,   \* the receipt file
  issued,    \* every receipt issued, with the command that issued it
  task,      \* what the certify command is doing
  draft,     \* the report or the signed receipt it holds in memory
  verdict,   \* what the last verification said, of which documents
  edits      \* bound counter

documents == <<report, receipt, issued, task, draft, verdict, edits>>

NoVerdict == [kind |-> "none", reason |-> "none", trusted |-> Missing,
              report |-> Missing, receipt |-> Missing]

---------------------------------------------------------------------------
(* Issuing. *)

\* Mutant: the receipt takes its verdict from elsewhere than the report it commits to.
ReceiptOfOptimist(document) ==
  [remote |-> document.remote, code |-> document.code, status |-> "CONFORMANT", about |-> DigestOf(document)]

\* Receipt::issue.
ReceiptOf(document) ==
  [remote |-> document.remote, code |-> document.code, status |-> document.status, about |-> DigestOf(document)]

\* Mutant: the signature covers everything but the verdict.
PayloadOfTheRest(r) == DigestOf([r EXCEPT !.status = "CONFORMANT"])

\* Receipt::signing_payload: the digest of the whole receipt.
PayloadOf(r) == DigestOf(r)

SignedBy(key, r) ==
  [algorithm |-> "ed25519", public |-> key, receipt |-> r,
   signature |-> IF key = Missing THEN Missing ELSE [by |-> key, over |-> PayloadOf(r)]]

\* signing_key_from_hex and verifying_key_from_base64.
Undecodable(key) == key = Garbage

\* Digest::parse, of the profile and corpus digests a report states.
PinsItsInputs(document) == document.pinned

Finish(kind, reason) ==
  /\ task' = "idle" /\ draft' = Missing
  /\ verdict' = [NoVerdict EXCEPT !.kind = kind, !.reason = reason]

\* read_report and Receipt::issue: a profile or corpus digest that is not one is refused.
IssueRead ==
  /\ task = "idle" /\ Cardinality(issued) < MaxIssues
  /\ CASE report \in {Missing, Garbage}                        -> Finish("error", "ReportError")
       [] report \in Reports /\ ~PinsItsInputs(report)            -> Finish("error", "CertificationError")
       [] report \in Reports /\ PinsItsInputs(report)             ->
            task' = "issuing" /\ draft' = ReceiptOf(report) /\ verdict' = NoVerdict
  /\ UNCHANGED <<report, receipt, issued, edits>>

\* The receipt is signed, when a key is given, and written.
IssueWrite(key) ==
  /\ task = "issuing"
  /\ IF Undecodable(key)
     THEN Finish("error", "CertificationError") /\ UNCHANGED <<receipt, issued>>
     ELSE /\ receipt' = SignedBy(key, draft)
          /\ issued' = issued \cup {[by |-> "certify", signed |-> SignedBy(key, draft)]}
          /\ Finish("none", "none")
  /\ UNCHANGED <<report, edits>>
---------------------------------------------------------------------------
(* Verifying. *)

Check(document, signed, trusted, kind, reason) ==
  verdict' = [kind |-> kind, reason |-> reason, trusted |-> trusted,
              report |-> document, receipt |-> signed]

VerifyRead ==
  /\ task = "idle"
  /\ IF report \in {Missing, Garbage}
     THEN Finish("error", "ReportError")
     ELSE task' = "verifying" /\ draft' = report /\ verdict' = NoVerdict
  /\ UNCHANGED <<report, receipt, issued, edits>>

\* Mutant: the signature is checked under the key the receipt carries.
ChecksOutCarried(signed, trusted) ==
  /\ signed.signature \in Signatures
  /\ signed.signature.by = signed.public
  /\ signed.signature.over = PayloadOf(signed.receipt)

\* verify_strict under the trusted key; the key the receipt carries is not looked at.
ChecksOut(signed, trusted) ==
  /\ signed.signature \in Signatures
  /\ signed.signature.by = trusted
  /\ signed.signature.over = PayloadOf(signed.receipt)

\* Mutant: a receipt is matched with its report by the verdict they state.
MatchesByStatus(signed, document) == signed.receipt.status = document.status

Matches(signed, document) == signed.receipt.about = DigestOf(document)

\* verify: the report first, then the algorithm, then who issued it, when anybody asks.
Decide(document, signed, trusted) ==
  LET says(kind, reason) == Check(document, signed, trusted, kind, reason)
  IN  CASE ~Matches(signed, document)             -> says("error", "report-digest-mismatch")
        [] /\ Matches(signed, document)
           /\ signed.algorithm # "ed25519"        -> says("error", "unsupported-algorithm")
        [] /\ Matches(signed, document) /\ signed.algorithm = "ed25519"
           /\ trusted = Missing                   -> says("unattributed", "no-key")
        [] /\ Matches(signed, document) /\ signed.algorithm = "ed25519"
           /\ trusted # Missing
           /\ signed.signature \notin Signatures  -> says("error", "malformed-signature")
        [] /\ Matches(signed, document) /\ signed.algorithm = "ed25519"
           /\ trusted # Missing
           /\ signed.signature \in Signatures
           /\ ~ChecksOut(signed, trusted)         -> says("error", "signature-invalid")
        [] /\ Matches(signed, document) /\ signed.algorithm = "ed25519"
           /\ trusted # Missing
           /\ ChecksOut(signed, trusted)          -> says("attributed", "none")

Verify(trusted) ==
  /\ task = "verifying"
  /\ IF receipt \in {Missing, Garbage} \/ Undecodable(trusted)
     THEN Finish("error", "CertificationError")
     ELSE task' = "idle" /\ draft' = Missing /\ Decide(draft, receipt, trusted)
  /\ UNCHANGED <<report, receipt, issued, edits>>
---------------------------------------------------------------------------
(* Anybody. *)

Edit == edits < MaxEdits /\ edits' = edits + 1 /\ UNCHANGED <<issued, task, draft, verdict>>

EditReport ==
  /\ report # Missing /\ Edit /\ UNCHANGED receipt
  /\ report' \in Loose \cup {Missing, Garbage}

\* A field of the receipt is changed, its signature is dropped or spoiled, another receipt's
\* signature is put in its place, or somebody signs what it says with a key of their own.
AlteredFrom(signed) ==
  {[signed EXCEPT !.receipt.status = s] : s \in Statuses}
  \cup {[signed EXCEPT !.receipt.about = DigestOf(r)] : r \in Loose}
  \cup {[signed EXCEPT !.algorithm = "other"]}
  \cup {[signed EXCEPT !.public = k] : k \in Keys}
  \cup {[signed EXCEPT !.signature = s] : s \in {Missing, Garbage} \cup {i.signed.signature : i \in issued}}
  \cup {SignedBy(k, signed.receipt) : k \in Strangers}

EditReceipt ==
  /\ receipt # Missing /\ Edit /\ UNCHANGED report
  /\ \/ receipt' \in {Missing, Garbage} \cup {i.signed : i \in issued}
     \/ receipt # Garbage /\ receipt' \in AlteredFrom(receipt)
---------------------------------------------------------------------------
CertificationInit ==
  /\ report = Missing /\ receipt = Missing
  /\ issued = {} /\ task = "idle" /\ draft = Missing /\ verdict = NoVerdict /\ edits = 0

Certify ==
  \/ IssueRead \/ (\E key \in Keys \cup {Missing, Garbage} : IssueWrite(key))
  \/ VerifyRead \/ (\E key \in Keys \cup {Missing, Garbage} : Verify(key))
  \/ EditReport \/ EditReceipt
---------------------------------------------------------------------------
Verdicts == [kind : {"none", "error", "unattributed", "attributed"},
             reason : {"none", "ReportError", "CertificationError", "report-digest-mismatch",
                       "unsupported-algorithm", "no-key", "malformed-signature", "signature-invalid"},
             trusted : Keys \cup {Missing}, report : Reports \cup {Missing},
             receipt : Signed \cup {Missing}]

\* What the process holds in memory depends on what it is doing.
Drafts == CASE task = "idle"       -> {Missing}
            [] task = "issuing"    -> Receipts
            [] task = "verifying"  -> Reports
            [] task = "publishing" -> Signed

CertificationTypeOK ==
  /\ report \in Reports \cup {Missing, Garbage} /\ receipt \in Signed \cup {Missing, Garbage}
  /\ issued \subseteq [by : {"certify", "run"}, signed : Signed]
  /\ task \in {"idle", "issuing", "verifying", "publishing"} /\ draft \in Drafts
  /\ verdict \in Verdicts /\ edits \in 0..MaxEdits

\* A verification attributes a report to a key exactly when the holder of that key issued
\* the receipt it read, about the report it read, whatever was rewritten, mixed up or put
\* back in between; and none an issuer wrote is refused for the report it was issued about.
AttributedMeansIssued ==
  verdict.receipt # Missing /\ verdict.trusted \in Keys \ Strangers =>
    LET signed == verdict.receipt
    IN  verdict.kind = "attributed" <=>
          /\ signed.algorithm = "ed25519"
          /\ signed.receipt.about = DigestOf(verdict.report)
          /\ \E i \in issued : /\ i.signed.receipt = signed.receipt
                               /\ i.signed.signature = signed.signature
                               /\ i.signed.public = verdict.trusted

\* The verdict a verification prints, which is the receipt's own, is that of the report it was
\* shown, and so is the code hash the receipt states.  Nothing but the issuer's signature ties
\* either to the report (certify.rs verify).
PrintedIsTheReports ==
  verdict.kind = "attributed" /\ verdict.trusted \notin Strangers =>
    /\ verdict.receipt.receipt.status = verdict.report.status
    /\ verdict.receipt.receipt.code = verdict.report.code
=============================================================================
