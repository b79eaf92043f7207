------------------------------ MODULE Extraction ------------------------------
(***************************************************************************)
(* What one attempt makes of a document, and when the next one is due: the *)
(* mock processor (mock-processor.ts), the validation of what it read      *)
(* (validator.ts), the classification of what went wrong                   *)
(* (error-classifier.ts) and the backoff (processing.service.ts).          *)
(* DocumentPipeline leaves the result of an attempt open; here it follows  *)
(* from the configuration, the filename and the content hash.              *)
(*                                                                         *)
(* Data is as fine as the rules see it: a text is there, blank or missing, *)
(* a date has the right form or not, and is then a year, month and day.    *)
(***************************************************************************)
EXTENDS Integers, Sequences, FiniteSets

CONSTANTS
    MaxAttempts,    \* MAX_PROCESSING_ATTEMPTS
    Inputs,         \* the documents, each with its configuration
    Draws,          \* values of random(), in thousandths
    Missing         \* a field that is not there, no data, no reading

ASSUME MaxAttemptsAssumption == MaxAttempts \in Nat \ {0}
ASSUME DrawsAssumption == Draws \subseteq 0 .. 1000

(***************************************************************************)
(* mode      MOCK_PROCESSOR_MODE                                           *)
(* name      the filename: the set of hint words in it                     *)
(* seed      the content hash: for each index the 16 bits seededValues     *)
(*           gives                                                         *)
(* reading   what a processor other than the mock would read, if there is  *)
(*           one                                                           *)
(***************************************************************************)
Seeds == [0 .. 10 -> 0 .. 2 ^ 16 - 1]

Texts == {"text", "blank", Missing}
Dates == [iso : BOOLEAN, year : Int, month : Int, day : Int]

\* What a processor may read, field by field.
Readings ==
    [companyName : Texts, registrationNumber : Texts, address : Texts,
     annualRevenue : Int \cup {Missing}, documentDate : Dates \cup {Missing}]

ASSUME InputsAssumption ==
    \A input \in Inputs :
      /\ input.mode \in {"always_success", "always_timeout", "always_invalid", "random"}
      /\ input.name \subseteq {"timeout", "invalid", "error", "success"}
      /\ input.seed \in Seeds
      /\ input.reading \in Readings \cup {Missing}

Outcomes == {"SUCCESS", "TIMEOUT", "ERROR", "INVALID_RESULT"}

ASSUME MissingAssumption ==
    Missing \notin {"text", "blank"} \cup Int \cup Dates \cup Readings \cup Outcomes

VARIABLES
    document,       \* what is processed
    attempt,        \* the attempts so far
    result,         \* what the last one read, and how it ended
    status,         \* what the document is after it
    waits           \* the backoffs so far, in milliseconds

vars == <<document, attempt, result, status, waits>>

Unread == [outcome |-> Missing, data |-> Missing, issues |-> {}]

Init == /\ document \in Inputs
        /\ attempt = 0
        /\ result = Unread
        /\ status = "UPLOADED"
        /\ waits = <<>>

-----------------------------------------------------------------------------
(* The mock processor.                                                     *)

\* Bug: the figure may be zero, and its negation is then no error.
buildExtraction_ZeroRevenue(seed) ==
    [companyName |-> "text", registrationNumber |-> "text", address |-> "text",
     annualRevenue |-> (seed[6] % 100) * 1250000,
     documentDate |-> [iso |-> TRUE, year |-> 2026, month |-> 1 + (seed[7] % 12),
                       day |-> 1 + (seed[8] % 28)]]

buildExtraction(seed) ==
    [companyName |-> "text", registrationNumber |-> "text", address |-> "text",
     annualRevenue |-> (1 + (seed[6] % 100)) * 1250000,
     documentDate |-> [iso |-> TRUE, year |-> 2026, month |-> 1 + (seed[7] % 12),
                       day |-> 1 + (seed[8] % 28)]]

buildInvalidExtraction(seed) ==
    LET base == buildExtraction(seed)
    IN  CASE seed[9] % 4 = 0 -> [base EXCEPT !.registrationNumber = "blank"]
          [] seed[9] % 4 = 1 -> [base EXCEPT !.annualRevenue = - base.annualRevenue]
          [] seed[9] % 4 = 2 -> [base EXCEPT !.documentDate.iso = FALSE]
          [] OTHER           -> [base EXCEPT !.companyName = "blank"]

outcomeFromMode(mode) ==
    CASE mode = "always_success" -> {"SUCCESS"}
      [] mode = "always_timeout" -> {"TIMEOUT"}
      [] mode = "always_invalid" -> {"INVALID_RESULT"}
      [] OTHER                   -> {}

\* A filename may hold several hints: the first of this order counts.
outcomeFromFilename(name) ==
    IF "timeout" \in name THEN {"TIMEOUT"}
    ELSE IF "invalid" \in name THEN {"INVALID_RESULT"}
    ELSE IF "error" \in name THEN {"ERROR"}
    ELSE IF "success" \in name THEN {"SUCCESS"}
    ELSE {}

outcomeFromHash(seed) ==
    LET roll == seed[10] % 100
    IN  CASE roll \in 0 .. 69  -> "SUCCESS"
          [] roll \in 70 .. 81 -> "TIMEOUT"
          [] roll \in 82 .. 91 -> "ERROR"
          [] OTHER            -> "INVALID_RESULT"

resolveOutcome(d) ==
    IF outcomeFromMode(d.mode) # {} THEN CHOOSE o \in outcomeFromMode(d.mode) : TRUE
    ELSE IF outcomeFromFilename(d.name) # {} THEN CHOOSE o \in outcomeFromFilename(d.name) : TRUE
    ELSE outcomeFromHash(d.seed)

\* An outcome that is not a reading comes without data.
extract(d) ==
    LET outcome == resolveOutcome(d)
    IN  [outcome |-> outcome,
         data    |-> CASE outcome = "SUCCESS"        -> buildExtraction(d.seed)
                       [] outcome = "INVALID_RESULT" -> buildInvalidExtraction(d.seed)
                       [] OTHER                      -> Missing]

-----------------------------------------------------------------------------
(* The validator.                                                          *)

DaysIn(year, month) ==
    CASE month \in {4, 6, 9, 11} -> 30
      [] month = 2 -> IF year % 4 = 0 /\ (year % 100 # 0 \/ year % 400 = 0) THEN 29 ELSE 28
      [] OTHER -> 31

RealDate(date) == date.month \in 1 .. 12 /\ date.day \in 1 .. DaysIn(date.year, date.month)

Undefined(field) == [field |-> field, code |-> "invalid_type", minimum |-> Missing]
TooSmall(field, minimum) == [field |-> field, code |-> "too_small", minimum |-> minimum]
Custom(field, what) == [field |-> field, code |-> what, minimum |-> Missing]

textIssues(data, field) ==
    CASE data[field] = Missing -> {Undefined(field)}
      [] data[field] = "blank" -> {TooSmall(field, 1)}
      [] OTHER                 -> {}

optionalTextIssues(data, field) ==
    IF data[field] = Missing THEN {} ELSE textIssues(data, field)

revenueIssues(data) ==
    IF data.annualRevenue = Missing THEN {Undefined("annualRevenue")}
    ELSE IF data.annualRevenue < 0 THEN {TooSmall("annualRevenue", 0)}
    ELSE {}

\* Bug: both checks of the date report.
isoDate_Chained(data) ==
    LET date == data.documentDate
    IN  IF date = Missing THEN {Undefined("documentDate")}
        ELSE   (IF ~ date.iso THEN {Custom("documentDate", "pattern")} ELSE {})
          \cup (IF ~ date.iso \/ ~ RealDate(date) THEN {Custom("documentDate", "calendar")} ELSE {})

\* A date of the wrong form is not asked whether it exists.
isoDate(data) ==
    LET date == data.documentDate
    IN  IF date = Missing THEN {Undefined("documentDate")}
        ELSE IF ~ date.iso THEN {Custom("documentDate", "pattern")}
        ELSE IF ~ RealDate(date) THEN {Custom("documentDate", "calendar")}
        ELSE {}

\* The stable name of a rule; the code keeps the two messages of a date apart.
toIssue(issue) ==
    [field |-> issue.field,
     rule  |-> CASE issue.code = "invalid_type" -> "required"
                 [] issue.code = "too_small"    -> IF issue.minimum = 0 THEN "min" ELSE "required"
                 [] OTHER                       -> "format",
     message |-> issue.code]

validateExtractedData(data) ==
    LET found == textIssues(data, "companyName") \cup textIssues(data, "registrationNumber")
                   \cup optionalTextIssues(data, "address") \cup revenueIssues(data) \cup isoDate(data)
    IN  {toIssue(issue) : issue \in found}

-----------------------------------------------------------------------------
(* The attempts.                                                           *)

\* Bug: the jitter is half the delay instead of a quarter.
backoffMs_WideJitter(n, draw) ==
    LET base == 2000 * 2 ^ (n - 1)
    IN  base + (base * (2 * draw - 1000)) \div 2000

\* 2 s, 4 s, 8 s and so on, each up to a quarter shorter or longer.
backoffMs(n, draw) ==
    LET base == 2000 * 2 ^ (n - 1)
    IN  base + (base * (2 * draw - 1000)) \div 4000

\* The attempt's answer is what the mock extracts, or another processor's reading.
Read == /\ status \in {"UPLOADED", "RETRY_PENDING"}
        /\ attempt' = attempt + 1
        /\ LET answer == IF document.reading = Missing THEN extract(document)
                         ELSE [outcome |-> "SUCCESS", data |-> document.reading]
           IN  result' = [outcome |-> answer.outcome, data |-> answer.data,
                          issues |-> IF answer.data = Missing THEN {}
                                     ELSE validateExtractedData(answer.data)]
        /\ UNCHANGED document

Accept == /\ Read /\ result'.data # Missing /\ result'.issues = {}
          /\ status' = "PROCESSED" /\ UNCHANGED waits

Reject == /\ Read /\ result'.data # Missing /\ result'.issues # {}
          /\ status' = "VALIDATION_FAILED" /\ UNCHANGED waits

\* Only outcomes without data get here, and classify calls each of them retryable.
RetryLater == /\ Read /\ result'.data = Missing /\ attempt' < MaxAttempts
              /\ status' = "RETRY_PENDING"
              /\ \E draw \in Draws : waits' = Append(waits, backoffMs(attempt', draw))

GiveUp == /\ Read /\ result'.data = Missing /\ attempt' >= MaxAttempts
          /\ status' = "FAILED" /\ UNCHANGED waits

Next == Accept \/ Reject \/ RetryLater \/ GiveUp

Spec == Init /\ [][Next]_vars

-----------------------------------------------------------------------------
(* Properties.                                                             *)

\* The mock and the validator agree on every document: what the mock builds as valid
\* is accepted, and what it builds as invalid is rejected for exactly one field.
MockMeansWhatItSays ==
    document.reading = Missing =>
      /\ result.outcome = "SUCCESS" => status = "PROCESSED"
      /\ result.outcome = "INVALID_RESULT" =>
           status = "VALIDATION_FAILED" /\ Cardinality(result.issues) = 1

\* Every broken rule is reported, and none twice: one issue for each field that is
\* missing, blank, negative or no date, whatever else is wrong.
EveryBrokenRuleOnce ==
    result.data # Missing =>
      LET data == result.data
          broken == {f \in {"companyName", "registrationNumber"} : data[f] # "text"}
                    \cup {f \in {"address"} : data[f] = "blank"}
                    \cup {f \in {"annualRevenue"} : data[f] = Missing \/ data[f] < 0}
                    \cup {f \in {"documentDate"} : data[f] = Missing \/ ~ data[f].iso \/ ~ RealDate(data[f])}
      IN  /\ {issue.field : issue \in result.issues} = broken
          /\ Cardinality(result.issues) = Cardinality(broken)

\* Each wait is longer than the one before, whatever the jitter, and none is zero.
WaitsGrow == /\ \A i \in DOMAIN waits : waits[i] > 0
             /\ \A i \in 2 .. Len(waits) : waits[i] > waits[i - 1]

=============================================================================
