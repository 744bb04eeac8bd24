------------------------------- MODULE Batches -------------------------------
(***************************************************************************)
(* Batch payouts: batch-payout-parser.service.ts accepts or refuses a file *)
(* of rows, batch-payout.service.ts files a batch and, on confirmation,    *)
(* blocks its amount, files a payout per row and marks the batch.          *)
(*                                                                         *)
(* The wallet's interface in this repository has no BlockBalance, and the  *)
(* payout table requires columns these rows leave out: as things stand     *)
(* both calls throw.  The model lets them work as well, so that the rest   *)
(* of the confirmation has a meaning.  Amounts are in cents.               *)
(***************************************************************************)
EXTENDS Integers, Sequences, FiniteSets, SequencesExt

CONSTANTS BatchIds, Confirmers,
          FileRows,      \* the rows a file may hold
          MaxFileRows,   \* MAX_ROWS
          MaxConfirms    \* bound of the confirmations of a batch

ASSUME ConfirmersAssumption == IsFiniteSet(Confirmers) /\ MaxConfirms \in Nat
ASSUME FileAssumption       == MaxFileRows \in Nat /\ \A row \in FileRows : row.amount \in Int

VARIABLES batch,    \* batch[b]: the row of the batch table
          blocks,   \* blocks[b]: the amounts the wallet has blocked for b
          payouts,  \* payouts[b]: the amounts of the payouts filed for b
          confirm,  \* confirm[c]: where confirmation c is, with the batch as it was read
          failed    \* failed[b]: confirmations of b that overlapped another or broke off after the block

batchVars == <<batch, blocks, payouts, confirm, failed>>

\* A row: email, the amount and how it is written, type, currency, country and the fields that are filled.
BankTypes       == {"bank_transfer", "imps", "neft", "rtgs"}
ListedCountries == {"IN", "US", "GB", "DE", "FR"}

\* payoutRowSchema, as far as the rest depends on it.
SchemaErrors(row) ==
  (IF row.amount <= 0 THEN {"amount"} ELSE {})
  \cup (IF row.currency \notin {"INR", "USD", "EUR", "GBP"} THEN {"currency"} ELSE {})

\* The digits compared with a country's phone code are the first three, and no listed code has three.
PhoneMismatch(row) == row.country \in ListedCountries

\* validateBusinessRules; amounts over 1000, here in cents, ask for a document, abroad.
LargeAmount == 100000
Required(row) ==
  CASE row.type \in BankTypes /\ row.currency = "INR" -> {"account", "ifsc"}
    [] row.type \in BankTypes ->
         {"account", "swift"} \cup (IF row.currency = "EUR" THEN {"iban"} ELSE {})
                              \cup (IF row.amount > LargeAmount THEN {"document"} ELSE {})
    [] row.type = "upi" -> {"vpa"}
    [] OTHER -> {}
BusinessErrors(row) ==
  (Required(row) \ row.has)
  \cup (IF row.type \in BankTypes /\ row.currency # "INR" /\ row.country = "none" THEN {"country_code"} ELSE {})
  \cup (IF row.type = "upi" /\ row.currency # "INR" THEN {"currency"} ELSE {})
  \cup (IF PhoneMismatch(row) THEN {"customer_phone"} ELSE {})

\* The account a duplicate is recognised by.
Beneficiary(row) ==
  IF "account" \in row.has THEN row.account ELSE IF "vpa" \in row.has THEN row.vpa ELSE "undefined"
\* Two rows are duplicates by the amount as it is written.  Variant: by email and account of neighbours only.
TwinsNeighbours(file, i, j) ==
  /\ j = i + 1
  /\ file[i].email = file[j].email /\ file[i].written = file[j].written
  /\ Beneficiary(file[i]) = Beneficiary(file[j])
Twins(file, i, j) ==
  /\ file[i].email = file[j].email /\ file[i].written = file[j].written
  /\ Beneficiary(file[i]) = Beneficiary(file[j])

\* parseCSV and parseExcel: the rows of a file, in order; one that cannot be read is refused like an empty one.
Files == SeqOf(FileRows, MaxFileRows)

\* validateAndProcessRows: a file is accepted when no row has an error.
FileAccepted(file) ==
  /\ Len(file) \in 1 .. MaxFileRows
  /\ \A i, j \in DOMAIN file : file[i].currency = file[j].currency
  /\ \A i \in DOMAIN file : SchemaErrors(file[i]) \cup BusinessErrors(file[i]) = {}
  /\ \A i, j \in DOMAIN file : i < j => ~Twins(file, i, j)

SumOf(amounts) == FoldSeq(+, 0, amounts)
AmountOf(rows) == SumOf([i \in DOMAIN rows |-> rows[i].amount])
\* calculateBatchFees: half a percent, rounded to cents, and five for each payout.
BatchFees(total, count) == (total + 100) \div 200 + 500 * count

----------------------------------------------------------------------------
NoBatch == [status |-> "none"]
Waiting == [at |-> "idle"]
BatchesInit ==
  /\ batch = [b \in BatchIds |-> NoBatch]
  /\ blocks = [b \in BatchIds |-> << >>]
  /\ payouts = [b \in BatchIds |-> << >>]
  /\ confirm = [c \in Confirmers |-> Waiting]
  /\ failed = [b \in BatchIds |-> 0]

\* uploadBatchPayout of a file that is accepted; any other leaves nothing behind.
\* Variant: what is kept for the confirmation is the preview of the file, here its first row.
KeptPreview(file) == SubSeq(file, 1, 1)
Kept(file)        == file
Upload(b, file) ==
  /\ batch[b] = NoBatch
  /\ FileAccepted(file)
  /\ LET total == AmountOf(file)
         fees  == BatchFees(total, Len(file))
     IN batch' = [batch EXCEPT ![b] = [status |-> "validated", rows |-> Kept(file), count |-> Len(file),
                                       total |-> total, fees |-> fees, debited |-> total + fees, pending |-> 0]]
  /\ UNCHANGED <<blocks, payouts, confirm, failed>>

Confirming(b) == {c \in Confirmers : confirm[c].at # "idle" /\ confirm[c].batch = b}
Attempts(b)   == Len(blocks[b]) + Cardinality(Confirming(b))
Break(c)      == confirm' = [confirm EXCEPT ![c] = Waiting]
\* Failures beyond MaxConfirms excuse nothing more.
Excused(b)    == failed' = [failed EXCEPT ![b] = IF @ < MaxConfirms THEN @ + 1 ELSE @]

\* confirmBatchPayout up to the wallet's answer about the balance.
\* Variant: the status of the batch is not looked at.
ConfirmBeginAnyway(c, b) ==
  /\ confirm[c] = Waiting
  /\ batch[b] # NoBatch /\ Attempts(b) < MaxConfirms
  /\ confirm' = [confirm EXCEPT ![c] = [at |-> "block", batch |-> b, read |-> batch[b]]]
  /\ IF Confirming(b) # {} THEN Excused(b) ELSE UNCHANGED failed
  /\ UNCHANGED <<batch, blocks, payouts>>
ConfirmBegin(c, b) ==
  /\ confirm[c] = Waiting
  /\ batch[b].status = "validated" /\ Attempts(b) < MaxConfirms
  /\ confirm' = [confirm EXCEPT ![c] = [at |-> "block", batch |-> b, read |-> batch[b]]]
  /\ IF Confirming(b) # {} THEN Excused(b) ELSE UNCHANGED failed
  /\ UNCHANGED <<batch, blocks, payouts>>

\* The balance is too low, the wallet refuses, or a call throws before the wallet has acted.
ConfirmRefused(c) ==
  /\ confirm[c].at = "block"
  /\ Break(c)
  /\ UNCHANGED <<batch, blocks, payouts, failed>>

\* BlockBalance: the amount is blocked, and the answer arrives or is lost.
\* Variant: the fees are not blocked.
BlockBatchNet(c) ==
  /\ confirm[c].at = "block"
  /\ LET b == confirm[c].batch IN
       /\ blocks' = [blocks EXCEPT ![b] = Append(@, confirm[c].read.total)]
       /\ \/ confirm' = [confirm EXCEPT ![c].at = "file"] /\ UNCHANGED failed
          \/ Break(c) /\ Excused(b)
  /\ UNCHANGED <<batch, payouts>>
BlockBatch(c) ==
  /\ confirm[c].at = "block"
  /\ LET b == confirm[c].batch IN
       /\ blocks' = [blocks EXCEPT ![b] = Append(@, confirm[c].read.debited)]
       /\ \/ confirm' = [confirm EXCEPT ![c].at = "file"] /\ UNCHANGED failed
          \/ Break(c) /\ Excused(b)
  /\ UNCHANGED <<batch, payouts>>

\* createIndividualPayouts of the rows that were read: all of them are saved in one transaction.
FilePayouts(c) ==
  /\ confirm[c].at = "file" /\ confirm[c].read.rows # << >>
  /\ LET b == confirm[c].batch
         rows == confirm[c].read.rows
     IN payouts' = [payouts EXCEPT ![b] = @ \o [i \in DOMAIN rows |-> rows[i].amount]]
  /\ confirm' = [confirm EXCEPT ![c].at = "mark"]
  /\ UNCHANGED <<batch, blocks, failed>>

\* The batch goes to processing, without its rows; processPayouts does nothing.
MarkBatch(c) ==
  /\ confirm[c].at = "mark"
  /\ LET b == confirm[c].batch IN
       batch' = [batch EXCEPT ![b].status = "processing", ![b].rows = << >>, ![b].pending = Len(confirm[c].read.rows)]
  /\ Break(c)
  /\ UNCHANGED <<blocks, payouts, failed>>

\* A save throws, or the process dies: the block stays, and so does the status.
ConfirmBreaks(c) ==
  /\ confirm[c].at \in {"file", "mark"}
  /\ Break(c) /\ Excused(confirm[c].batch)
  /\ UNCHANGED <<batch, blocks, payouts>>

BatchesNext ==
  \/ \E b \in BatchIds, file \in Files : Upload(b, file)
  \/ \E c \in Confirmers :
       \/ \E b \in BatchIds : ConfirmBegin(c, b)
       \/ ConfirmRefused(c) \/ BlockBatch(c) \/ FilePayouts(c) \/ MarkBatch(c) \/ ConfirmBreaks(c)

BatchesSpec == BatchesInit /\ [][BatchesNext]_batchVars
----------------------------------------------------------------------------
\* The payouts of a batch never exceed what the wallet has blocked for them, fees aside, whatever
\* overlaps, throws or is confirmed again (createIndividualPayouts runs only behind its own block).
PayoutsAreBlocked ==
  \A b \in BatchIds : batch[b] # NoBatch => SumOf(payouts[b]) + Len(blocks[b]) * batch[b].fees <= SumOf(blocks[b])

\* A batch that says it is processing has a payout for every row of its file, and counts them.
ProcessingIsFiled ==
  \A b \in BatchIds :
    batch[b].status = "processing" =>
      /\ batch[b].pending = batch[b].count
      /\ Len(payouts[b]) >= batch[b].count /\ SumOf(payouts[b]) >= batch[b].total

\* An amount is blocked a second time only after a confirmation broke off behind its block, or beside
\* another one that had read the batch too: the status check of confirmBatchPayout stops every other.
BlockedAgainForCause == \A b \in BatchIds : Len(blocks[b]) <= 1 + failed[b]

\* Two payouts of one file that pay the same amount to the same account of the same person wrote the
\* amount in different ways: "100" and "100.00" are no duplicates (the error text speaks of the amount).
TwinsWrittenApart ==
  \A b \in BatchIds :
    batch[b].status = "validated" =>
      \A i, j \in DOMAIN batch[b].rows :
        LET row == batch[b].rows[i]
            other == batch[b].rows[j]
        IN i # j /\ row.email = other.email /\ row.amount = other.amount /\ Beneficiary(row) = Beneficiary(other)
             => row.written # other.written

\* A confirmed batch pays what its file says and no more than is blocked for it, and is blocked again or pays
\* twins only for the causes named, whatever confirmations overlap, throw or are repeated.
BatchesAreCovered == PayoutsAreBlocked /\ ProcessingIsFiled /\ BlockedAgainForCause /\ TwinsWrittenApart
=============================================================================
