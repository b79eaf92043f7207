--------------------------- MODULE Extraction_proofs ---------------------------
(***************************************************************************)
(* What is proved of an attempt, for every configuration, filename,        *)
(* content hash and reading: that waits grow whatever the jitter, that a   *)
(* broken rule is reported once, and that mock and validator agree.        *)
(*                                                                         *)
(* A wait is within a quarter of its base, and the base doubles: three     *)
(* quarters of the next are more than five quarters of the last.  That     *)
(* powers of two double is not in the provers' arithmetic; it follows from *)
(* the library's theorem on the number of subsets.                         *)
(***************************************************************************)
EXTENDS Extraction, FiniteSetTheorems, FunctionTheorems, TLAPS

-----------------------------------------------------------------------------
(* Cardinalities.                                                          *)

\* Sets in one-to-one correspondence are of one size.
LEMMA SameSize ==
    ASSUME NEW S, NEW T, IsFiniteSet(S), NEW f \in [S -> T],
           \A a, b \in S : f[a] = f[b] => a = b,
           \A t \in T : \E s \in S : f[s] = t
    PROVE  IsFiniteSet(T) /\ Cardinality(T) = Cardinality(S)
<1>1. f \in Bijection(S, T)
  BY Fun_IsBij
<1>2. ExistsBijection(S, T)
  BY <1>1, Fun_ExistsBij
<1> QED
  BY <1>2, FS_Bijection

\* The power of two is the number of subsets.
LEMMA PowerOfTwo ==
    ASSUME NEW n \in Nat
    PROVE  /\ IsFiniteSet(SUBSET (1 .. n)) /\ Cardinality(SUBSET (1 .. n)) = 2 ^ n
           /\ 2 ^ n \in Nat \ {0}
<1>1. IsFiniteSet(1 .. n) /\ Cardinality(1 .. n) = n
  BY FS_Interval
<1>2. IsFiniteSet(SUBSET (1 .. n)) /\ Cardinality(SUBSET (1 .. n)) = 2 ^ n
  BY <1>1, FS_SUBSET
<1>3. Cardinality(SUBSET (1 .. n)) \in Nat
  BY <1>2, FS_CardinalityType
<1>4. SUBSET (1 .. n) # {}
  OBVIOUS
<1>5. Cardinality(SUBSET (1 .. n)) # 0
  BY <1>2, <1>4, FS_EmptySet
<1> QED
  BY <1>2, <1>3, <1>5

\* It doubles: a new element is in half of the subsets.
LEMMA PowersDouble ==
    ASSUME NEW n \in Nat
    PROVE  2 ^ (n + 1) = 2 * 2 ^ n
<1> DEFINE S == SUBSET (1 .. n)
           T == {U \in SUBSET (1 .. n + 1) : n + 1 \in U}
           f == [U \in S |-> U \cup {n + 1}]
<1>1. IsFiniteSet(S) /\ Cardinality(S) = 2 ^ n /\ 2 ^ n \in Nat
  BY PowerOfTwo
<1>2. /\ IsFiniteSet(SUBSET (1 .. n + 1))
      /\ Cardinality(SUBSET (1 .. n + 1)) = 2 ^ (n + 1)
  BY PowerOfTwo
<1>3. 1 .. n + 1 = (1 .. n) \cup {n + 1} /\ n + 1 \notin 1 .. n
  OBVIOUS
<1>4. f \in [S -> T]
  BY <1>3
<1>5. ASSUME NEW U \in S, NEW V \in S, f[U] = f[V] PROVE U = V
  <2>1. n + 1 \notin U /\ n + 1 \notin V
    BY <1>3
  <2>2. U \cup {n + 1} = V \cup {n + 1}
    BY <1>5
  <2> QED
    BY <2>1, <2>2
<1>6. ASSUME NEW U \in T PROVE \E V \in S : f[V] = U
  <2>1. U \ {n + 1} \in S
    BY <1>3
  <2>2. (U \ {n + 1}) \cup {n + 1} = U
    OBVIOUS
  <2> QED
    BY <2>1, <2>2
<1>7. S \cup T = SUBSET (1 .. n + 1) /\ S \cap T = {}
  BY <1>3
<1> HIDE DEF f, S, T
<1>8. IsFiniteSet(T) /\ Cardinality(T) = Cardinality(S)
  BY <1>1, <1>4, <1>5, <1>6, SameSize
<1>9. Cardinality(S \cup T) = Cardinality(S) + Cardinality(T) - Cardinality(S \cap T)
  BY <1>1, <1>8, FS_Union
<1>10. Cardinality(S \cap T) = 0
  BY <1>7, FS_EmptySet
<1>11. Cardinality(S \cup T) = 2 ^ (n + 1)
  BY <1>2, <1>7
<1> DEFINE m == 2 ^ n
<1> HIDE DEF m
<1>12. m \in Nat /\ Cardinality(S) = m /\ Cardinality(T) = m
  BY <1>1, <1>8 DEF m
<1>13. Cardinality(S \cup T) = 2 * m
  BY <1>9, <1>10, <1>12
<1> QED
  BY <1>11, <1>13 DEF m

-----------------------------------------------------------------------------
(* The waits.                                                              *)

\* Between three and five quarters of the base.
Around(wait, n) == /\ wait \in Nat
                   /\ 1500 * 2 ^ (n - 1) <= wait /\ wait <= 2500 * 2 ^ (n - 1)

WaitsInv == /\ attempt \in Nat /\ waits \in Seq(Nat)
            /\ status \in {"UPLOADED", "RETRY_PENDING"} => Len(waits) = attempt
            /\ \A i \in 1 .. Len(waits) : Around(waits[i], i)

\* The jitter is at most a quarter either way.
LEMMA JitterIsBounded ==
    ASSUME NEW n \in Nat \ {0}, NEW draw \in Draws
    PROVE  Around(backoffMs(n, draw), n)
<1> DEFINE p == 2 ^ (n - 1)
           x == 2 * draw - 1000
<1>1. p \in Nat
  <2>1. n - 1 \in Nat
    OBVIOUS
  <2> QED
    BY <2>1, PowerOfTwo
<1>2. x \in Int /\ -1000 <= x /\ x <= 1000
  BY DrawsAssumption
<1>3. backoffMs(n, draw) = 2000 * p + (2000 * p * x) \div 4000
  BY DEF backoffMs
<1> HIDE DEF p, x
<1>4. p * x \in Int /\ -1000 * p <= p * x /\ p * x <= 1000 * p
  BY <1>1, <1>2
<1>5. 2000 * p * x = 2000 * (p * x)
  BY <1>1, <1>2
<1>6. \A y \in Int : -1000 * p <= y /\ y <= 1000 * p =>
        /\ (2000 * y) \div 4000 \in Int
        /\ -500 * p <= (2000 * y) \div 4000 /\ (2000 * y) \div 4000 <= 500 * p
  BY <1>1
<1> QED
  BY <1>1, <1>3, <1>4, <1>5, <1>6 DEF Around, p

\* What is around a base is below what is around the next.
LEMMA NextIsLonger ==
    ASSUME NEW n \in Nat \ {0}, NEW v, NEW w, Around(v, n), Around(w, n + 1)
    PROVE  v > 0 /\ v < w
<1> DEFINE p == 2 ^ (n - 1)
<1>1. p \in Nat \ {0} /\ 2 ^ n = 2 * p
  <2>1. n - 1 \in Nat /\ (n - 1) + 1 = n
    OBVIOUS
  <2> QED
    BY <2>1, PowerOfTwo, PowersDouble
<1>2. (n + 1) - 1 = n
  OBVIOUS
<1>3. /\ v \in Nat /\ 1500 * p <= v /\ v <= 2500 * p
      /\ w \in Nat /\ 1500 * 2 ^ n <= w
  BY <1>2 DEF Around
<1> HIDE DEF p
<1> QED
  BY <1>1, <1>3
-----------------------------------------------------------------------------
(* The rules.                                                              *)

\* The fields a reading breaks a rule in.
Broken(data) ==
    {f \in {"companyName", "registrationNumber"} : data[f] # "text"}
    \cup {f \in {"address"} : data[f] = "blank"}
    \cup {f \in {"annualRevenue"} : data[f] = Missing \/ data[f] < 0}
    \cup {f \in {"documentDate"} : data[f] = Missing \/ ~ data[f].iso \/ ~ RealDate(data[f])}

\* What the rules of one field find: nothing, or one issue of that field.
OnlyOf(found, field, broken) ==
    \/ found = {} /\ ~ broken
    \/ broken /\ \E issue : found = {issue} /\ issue.field = field

\* Each field has rules of its own, and at most one of them reports.
LEMMA OneRulePerField ==
    ASSUME NEW data \in Readings
    PROVE  /\ OnlyOf(textIssues(data, "companyName"), "companyName",
                     "companyName" \in Broken(data))
           /\ OnlyOf(textIssues(data, "registrationNumber"), "registrationNumber",
                     "registrationNumber" \in Broken(data))
           /\ OnlyOf(optionalTextIssues(data, "address"), "address", "address" \in Broken(data))
           /\ OnlyOf(revenueIssues(data), "annualRevenue", "annualRevenue" \in Broken(data))
           /\ OnlyOf(isoDate(data), "documentDate", "documentDate" \in Broken(data))
<1>m. Missing \notin {"text", "blank"}
  BY MissingAssumption
<1>1. ASSUME NEW field \in {"companyName", "registrationNumber", "address"}
      PROVE  data[field] \in Texts
  BY DEF Readings
<1>2. ASSUME NEW field \in {"companyName", "registrationNumber", "address"}
      PROVE  OnlyOf(textIssues(data, field), field, data[field] # "text")
  <2>1. CASE data[field] = Missing
    <3>1. textIssues(data, field) = {Undefined(field)} /\ Undefined(field).field = field
      BY <1>m, <2>1 DEF textIssues, Undefined
    <3> QED
      BY <1>m, <2>1, <3>1 DEF OnlyOf
  <2>2. CASE data[field] = "blank"
    <3>1. textIssues(data, field) = {TooSmall(field, 1)} /\ TooSmall(field, 1).field = field
      BY <1>m, <2>2 DEF textIssues, TooSmall
    <3> QED
      BY <2>2, <3>1 DEF OnlyOf
  <2>3. CASE data[field] = "text"
    <3>1. textIssues(data, field) = {}
      BY <1>m, <2>3 DEF textIssues
    <3> QED
      BY <2>3, <3>1 DEF OnlyOf
  <2> QED
    BY <1>1, <2>1, <2>2, <2>3 DEF Texts
<1>3. /\ "companyName" \in Broken(data) <=> data["companyName"] # "text"
      /\ "registrationNumber" \in Broken(data) <=> data["registrationNumber"] # "text"
      /\ "address" \in Broken(data) <=> data["address"] = "blank"
      /\ "annualRevenue" \in Broken(data) <=>
           data["annualRevenue"] = Missing \/ data["annualRevenue"] < 0
      /\ "documentDate" \in Broken(data) <=>
           data["documentDate"] = Missing \/ ~ data["documentDate"].iso
             \/ ~ RealDate(data["documentDate"])
  BY DEF Broken
<1>4. OnlyOf(optionalTextIssues(data, "address"), "address", "address" \in Broken(data))
  <2>1. CASE data["address"] = Missing
    BY <1>3, <1>m, <2>1 DEF optionalTextIssues, OnlyOf
  <2>2. CASE data["address"] # Missing
    <3>1. data["address"] # "text" <=> data["address"] = "blank"
      BY <1>1, <2>2 DEF Texts
    <3> QED
      BY <1>2, <1>3, <2>2, <3>1 DEF optionalTextIssues
  <2> QED
    BY <2>1, <2>2
<1>u. ASSUME NEW field PROVE Undefined(field).field = field
  BY DEF Undefined
<1>s. ASSUME NEW field, NEW minimum PROVE TooSmall(field, minimum).field = field
  BY DEF TooSmall
<1>c. ASSUME NEW field, NEW what PROVE Custom(field, what).field = field
  BY DEF Custom
<1>5. OnlyOf(revenueIssues(data), "annualRevenue", "annualRevenue" \in Broken(data))
  <2>1. CASE data.annualRevenue = Missing
    <3>1. revenueIssues(data) = {Undefined("annualRevenue")}
      BY <2>1 DEF revenueIssues
    <3> QED
      BY <1>3, <1>u, <2>1, <3>1 DEF OnlyOf
  <2>2. CASE data.annualRevenue # Missing /\ data.annualRevenue < 0
    <3>1. revenueIssues(data) = {TooSmall("annualRevenue", 0)}
      BY <2>2 DEF revenueIssues
    <3> QED
      BY <1>3, <1>s, <2>2, <3>1 DEF OnlyOf
  <2>3. CASE data.annualRevenue # Missing /\ ~ (data.annualRevenue < 0)
    <3>1. revenueIssues(data) = {}
      BY <2>3 DEF revenueIssues
    <3> QED
      BY <1>3, <2>3, <3>1 DEF OnlyOf
  <2> QED
    BY <2>1, <2>2, <2>3
<1>6. OnlyOf(isoDate(data), "documentDate", "documentDate" \in Broken(data))
  <2>1. CASE data.documentDate = Missing
    <3>1. isoDate(data) = {Undefined("documentDate")}
      BY <2>1 DEF isoDate
    <3> QED
      BY <1>3, <1>u, <2>1, <3>1 DEF OnlyOf
  <2>2. CASE data.documentDate # Missing /\ ~ data.documentDate.iso
    <3>1. isoDate(data) = {Custom("documentDate", "pattern")}
      BY <2>2 DEF isoDate
    <3> QED
      BY <1>3, <1>c, <2>2, <3>1 DEF OnlyOf
  <2>3. CASE /\ data.documentDate # Missing /\ data.documentDate.iso
             /\ ~ RealDate(data.documentDate)
    <3>1. isoDate(data) = {Custom("documentDate", "calendar")}
      BY <2>3 DEF isoDate
    <3> QED
      BY <1>3, <1>c, <2>3, <3>1 DEF OnlyOf
  <2>4. CASE /\ data.documentDate # Missing /\ data.documentDate.iso
             /\ RealDate(data.documentDate)
    <3>1. isoDate(data) = {}
      BY <2>4 DEF isoDate
    <3> QED
      BY <1>3, <2>4, <3>1 DEF OnlyOf
  <2> QED
    BY <2>1, <2>2, <2>3, <2>4
<1> QED
  BY <1>2, <1>3, <1>4, <1>5, <1>6

\* The broken fields are some of five.
LEMMA BrokenIsFinite ==
    ASSUME NEW data
    PROVE  IsFiniteSet(Broken(data))
<1> DEFINE fields == {"companyName", "registrationNumber", "address", "annualRevenue",
                      "documentDate"}
<1>1. IsFiniteSet(fields)
  <2>1. fields = (((({"companyName"} \cup {"registrationNumber"}) \cup {"address"})
                    \cup {"annualRevenue"}) \cup {"documentDate"})
    OBVIOUS
  <2> HIDE DEF fields
  <2>2. IsFiniteSet({"companyName"} \cup {"registrationNumber"})
    BY FS_Singleton, FS_AddElement
  <2>3. IsFiniteSet(({"companyName"} \cup {"registrationNumber"}) \cup {"address"})
    BY <2>2, FS_AddElement
  <2>4. IsFiniteSet((({"companyName"} \cup {"registrationNumber"}) \cup {"address"})
                     \cup {"annualRevenue"})
    BY <2>3, FS_AddElement
  <2> QED
    BY <2>1, <2>4, FS_AddElement
<1>2. Broken(data) \in SUBSET fields
  BY DEF Broken
<1> QED
  BY <1>1, <1>2, FS_Subset

\* The validator names every broken field, and each of them once.
LEMMA RulesReportOnce ==
    ASSUME NEW data \in Readings
    PROVE  /\ {issue.field : issue \in validateExtractedData(data)} = Broken(data)
           /\ Cardinality(validateExtractedData(data)) = Cardinality(Broken(data))
           /\ validateExtractedData(data) = {} <=> Broken(data) = {}
<1> DEFINE found == textIssues(data, "companyName") \cup textIssues(data, "registrationNumber")
                      \cup optionalTextIssues(data, "address") \cup revenueIssues(data)
                      \cup isoDate(data)
           issues == validateExtractedData(data)
<1>1. issues = {toIssue(issue) : issue \in found}
  BY DEF validateExtractedData
<1>2. \A issue : toIssue(issue).field = issue.field
  BY DEF toIssue
<1>3. /\ \A f \in Broken(data) : \E issue \in found : issue.field = f
      /\ \A issue \in found : issue.field \in Broken(data)
      /\ \A x, y \in found : x.field = y.field => x = y
  <2>1. Broken(data) \subseteq {"companyName", "registrationNumber", "address",
                                "annualRevenue", "documentDate"}
    BY DEF Broken
  <2> QED
    BY <2>1, OneRulePerField DEF OnlyOf
<1> HIDE DEF found, issues
<1>4. {issue.field : issue \in issues} = Broken(data)
  <2>1. \A issue \in issues : issue.field \in Broken(data)
    BY <1>1, <1>2, <1>3
  <2>2. ASSUME NEW f \in Broken(data) PROVE \E issue \in issues : issue.field = f
    <3>1. PICK x \in found : x.field = f
      BY <1>3
    <3>2. toIssue(x) \in issues /\ toIssue(x).field = f
      BY <1>1, <1>2, <3>1
    <3> QED
      BY <3>2
  <2> QED
    BY <2>1, <2>2
<1>5. ASSUME NEW x \in issues, NEW y \in issues, x.field = y.field PROVE x = y
  <2>1. PICK a \in found : x = toIssue(a)
    BY <1>1
  <2>2. PICK b \in found : y = toIssue(b)
    BY <1>1
  <2>3. a = b
    BY <1>2, <1>3, <1>5, <2>1, <2>2
  <2> QED
    BY <2>1, <2>2, <2>3
<1> DEFINE of == [f \in Broken(data) |-> CHOOSE issue \in issues : issue.field = f]
<1>6. ASSUME NEW f \in Broken(data) PROVE of[f] \in issues /\ of[f].field = f
  <2>1. \E issue \in issues : issue.field = f
    BY <1>4
  <2> QED
    BY <2>1
<1>7. of \in [Broken(data) -> issues]
  BY <1>6
<1>8. ASSUME NEW x \in issues PROVE of[x.field] = x /\ x.field \in Broken(data)
  BY <1>4, <1>5, <1>6
<1> HIDE DEF of
<1>9. Cardinality(issues) = Cardinality(Broken(data))
  <2>1. \A a, b \in Broken(data) : of[a] = of[b] => a = b
    BY <1>6
  <2>2. \A t \in issues : \E f \in Broken(data) : of[f] = t
    BY <1>8
  <2> QED
    BY <1>7, <2>1, <2>2, BrokenIsFinite, SameSize
<1>10. issues = {} <=> Broken(data) = {}
  BY <1>4
<1> QED
  BY <1>4, <1>9, <1>10 DEF issues

-----------------------------------------------------------------------------
(* The mock.                                                               *)

\* The bits are numbers.
LEMMA SeedsAreNumbers ==
    ASSUME NEW seed \in Seeds, NEW i \in 0 .. 10
    PROVE  seed[i] \in Nat
<1> DEFINE top == 2 ^ 16
<1>1. top \in Nat
  <2>1. \A n \in Nat : 2 ^ n \in Nat
    BY PowerOfTwo
  <2> QED
    BY <2>1
<1>2. seed \in [0 .. 10 -> 0 .. top - 1]
  BY DEF Seeds
<1> HIDE DEF top
<1> QED
  BY <1>1, <1>2

\* What the mock builds as valid breaks no rule: its date exists in every month,
\* because its days end at 28, and its revenue is never zero.
LEMMA BuiltToBeAccepted ==
    ASSUME NEW seed \in Seeds
    PROVE  /\ buildExtraction(seed) \in Readings
           /\ Broken(buildExtraction(seed)) = {}
           /\ buildExtraction(seed).annualRevenue \in Int
           /\ buildExtraction(seed).annualRevenue > 0
<1> DEFINE base == buildExtraction(seed)
           date == base.documentDate
<1>1. seed[6] \in Nat /\ seed[7] \in Nat /\ seed[8] \in Nat
  BY SeedsAreNumbers
<1>2. /\ base.companyName = "text" /\ base.registrationNumber = "text" /\ base.address = "text"
      /\ base.annualRevenue = (1 + (seed[6] % 100)) * 1250000
      /\ date = [iso |-> TRUE, year |-> 2026, month |-> 1 + (seed[7] % 12),
                 day |-> 1 + (seed[8] % 28)]
  BY DEF buildExtraction
<1>3. base.annualRevenue \in Int /\ base.annualRevenue > 0
  BY <1>1, <1>2
<1>4. date.month \in 1 .. 12 /\ date.day \in 1 .. 28 /\ date.year = 2026 /\ date.iso = TRUE
  BY <1>1, <1>2
<1>5. date \in Dates
  BY <1>2, <1>4 DEF Dates
<1>6. base \in Readings
  BY <1>3, <1>5 DEF Readings, Texts, buildExtraction
<1>7. date # Missing /\ base.annualRevenue # Missing
  BY <1>3, <1>5, MissingAssumption
<1>8. RealDate(date)
  <2>1. DaysIn(date.year, date.month) \in {28, 29, 30, 31}
    BY <1>4 DEF DaysIn
  <2> QED
    BY <1>4, <2>1 DEF RealDate
<1> HIDE DEF base
<1>9. Broken(base) = {}
  BY <1>2, <1>3, <1>4, <1>7, <1>8 DEF Broken
<1> QED
  BY <1>3, <1>6, <1>9 DEF base

\* What the mock builds as invalid is spoilt in one field, whichever it is.
LEMMA BuiltToBeRejected ==
    ASSUME NEW seed \in Seeds
    PROVE  /\ buildInvalidExtraction(seed) \in Readings
           /\ \E f : Broken(buildInvalidExtraction(seed)) = {f}
<1> DEFINE base == buildExtraction(seed)
           bad == buildInvalidExtraction(seed)
<1>1. /\ base \in Readings /\ Broken(base) = {}
      /\ base.annualRevenue \in Int /\ base.annualRevenue > 0
  BY BuiltToBeAccepted
<1>2. seed[9] \in Nat
  BY SeedsAreNumbers
<1>3. /\ seed[9] % 4 = 0 => bad = [base EXCEPT !.registrationNumber = "blank"]
      /\ seed[9] % 4 = 1 => bad = [base EXCEPT !.annualRevenue = - base.annualRevenue]
      /\ seed[9] % 4 = 2 => bad = [base EXCEPT !.documentDate.iso = FALSE]
      /\ seed[9] % 4 = 3 => bad = [base EXCEPT !.companyName = "blank"]
  BY DEF buildInvalidExtraction
<1>4. seed[9] % 4 \in {0, 1, 2, 3}
  BY <1>2
<1> HIDE DEF base, bad
<1>6. /\ base["companyName"] = "text" /\ base["registrationNumber"] = "text"
      /\ base["address"] # "blank"
      /\ base["annualRevenue"] # Missing /\ ~ (base["annualRevenue"] < 0)
      /\ base["documentDate"] # Missing /\ base["documentDate"].iso
      /\ RealDate(base["documentDate"])
  BY <1>1 DEF Broken
<1>7. CASE seed[9] % 4 = 0
  <2>1. bad \in Readings
    BY <1>1, <1>3, <1>7 DEF Readings, Texts
  <2>2. Broken(bad) = {"registrationNumber"}
    BY <1>1, <1>3, <1>6, <1>7 DEF Broken, Readings
  <2> QED
    BY <2>1, <2>2 DEF bad
<1>8. CASE seed[9] % 4 = 1
  <2>1. bad \in Readings
    BY <1>1, <1>3, <1>8 DEF Readings
  <2>2. bad["annualRevenue"] < 0
    BY <1>1, <1>3, <1>8 DEF Readings
  <2>3. Broken(bad) = {"annualRevenue"}
    BY <1>1, <1>3, <1>6, <1>8, <2>2 DEF Broken, Readings
  <2> QED
    BY <2>1, <2>3 DEF bad
<1>9. CASE seed[9] % 4 = 2
  <2> DEFINE spoilt == [base.documentDate EXCEPT !.iso = FALSE]
  <2>1. base.documentDate \in Dates
    BY <1>1, <1>6 DEF Readings
  <2>2. spoilt \in Dates /\ ~ spoilt.iso
    BY <2>1 DEF Dates
  <2>3. bad = [base EXCEPT !.documentDate = spoilt]
    BY <1>3, <1>9
  <2> HIDE DEF spoilt
  <2>4. bad \in Readings /\ bad["documentDate"] = spoilt
    BY <1>1, <2>2, <2>3 DEF Readings
  <2>5. Broken(bad) = {"documentDate"}
    BY <1>1, <1>6, <2>2, <2>3, <2>4 DEF Broken, Readings
  <2> QED
    BY <2>4, <2>5 DEF bad
<1>10. CASE seed[9] % 4 = 3
  <2>1. bad \in Readings
    BY <1>1, <1>3, <1>10 DEF Readings, Texts
  <2>2. Broken(bad) = {"companyName"}
    BY <1>1, <1>3, <1>6, <1>10 DEF Broken, Readings
  <2> QED
    BY <2>1, <2>2 DEF bad
<1> QED
  BY <1>4, <1>7, <1>8, <1>9, <1>10

-----------------------------------------------------------------------------
(* The attempts.                                                           *)

Answer(d) == IF d.reading = Missing THEN extract(d)
             ELSE [outcome |-> "SUCCESS", data |-> d.reading]

Verdict(d) == [outcome |-> Answer(d).outcome, data |-> Answer(d).data,
               issues |-> IF Answer(d).data = Missing THEN {}
                          ELSE validateExtractedData(Answer(d).data)]

\* The result is that of the document, and the status follows from it.
ResultInv ==
    /\ document \in Inputs
    /\ \/ result = Unread
       \/ /\ result = Verdict(document)
          /\ result.data # Missing =>
               status = IF result.issues = {} THEN "PROCESSED" ELSE "VALIDATION_FAILED"

\* There is always an answer, and what it holds is a reading.
LEMMA AnswerTypes ==
    ASSUME NEW d \in Inputs
    PROVE  /\ d.reading = Missing => Answer(d) = extract(d)
           /\ d.reading = Missing /\ Answer(d).outcome = "SUCCESS" =>
                Answer(d).data = buildExtraction(d.seed)
           /\ d.reading = Missing /\ Answer(d).outcome = "INVALID_RESULT" =>
                Answer(d).data = buildInvalidExtraction(d.seed)
           /\ Answer(d).data \in Readings \cup {Missing}
           /\ d.seed \in Seeds
<1>1. d.seed \in Seeds /\ d.reading \in Readings \cup {Missing}
  BY InputsAssumption
<1>2. /\ buildExtraction(d.seed) \in Readings
      /\ buildInvalidExtraction(d.seed) \in Readings
  BY <1>1, BuiltToBeAccepted, BuiltToBeRejected
<1>3. CASE d.reading # Missing
  BY <1>1, <1>3 DEF Answer
<1>4. CASE d.reading = Missing
  <2>1. Answer(d) = extract(d)
    BY <1>4 DEF Answer
  <2>2. /\ extract(d).outcome = resolveOutcome(d)
        /\ resolveOutcome(d) = "SUCCESS" => extract(d).data = buildExtraction(d.seed)
        /\ resolveOutcome(d) = "INVALID_RESULT" =>
             extract(d).data = buildInvalidExtraction(d.seed)
        /\ resolveOutcome(d) \notin {"SUCCESS", "INVALID_RESULT"} => extract(d).data = Missing
    BY DEF extract
  <2> QED
    BY <1>1, <1>2, <1>4, <2>1, <2>2
<1> QED
  BY <1>3, <1>4

LEMMA ResultStep == ResultInv /\ [Next]_vars => ResultInv'
<1> SUFFICES ASSUME ResultInv, [Next]_vars
             PROVE  ResultInv'
  OBVIOUS
<1>1. ASSUME Read
      PROVE  document' = document /\ result' = Verdict(document)
  BY <1>1 DEF Read, Verdict, Answer
<1>2. CASE Accept
  BY <1>1, <1>2 DEF Accept, Read, ResultInv
<1>3. CASE Reject
  BY <1>1, <1>3 DEF Reject, Read, ResultInv
<1>4. CASE RetryLater
  BY <1>1, <1>4 DEF RetryLater, Read, ResultInv
<1>5. CASE GiveUp
  BY <1>1, <1>5 DEF GiveUp, Read, ResultInv
<1>6. CASE UNCHANGED vars
  BY <1>6 DEF vars, ResultInv, Verdict
<1> QED
  BY <1>2, <1>3, <1>4, <1>5, <1>6 DEF Next

LEMMA ResultAlways == Spec => []ResultInv
<1>1. Init => ResultInv
  BY DEF Init, ResultInv
<1> QED
  BY <1>1, ResultStep, PTL DEF Spec

\* What the mock builds as valid is accepted; what it builds as invalid is rejected, with
\* one issue.
THEOREM MockAndValidatorAgree == Spec => []MockMeansWhatItSays
<1>1. ASSUME ResultInv PROVE MockMeansWhatItSays
  <2> SUFFICES ASSUME document.reading = Missing,
                      result.outcome \in {"SUCCESS", "INVALID_RESULT"}
               PROVE  /\ result.outcome = "SUCCESS" => status = "PROCESSED"
                      /\ result.outcome = "INVALID_RESULT" =>
                           status = "VALIDATION_FAILED" /\ Cardinality(result.issues) = 1
    BY DEF MockMeansWhatItSays
  <2>1. document \in Inputs
    BY <1>1 DEF ResultInv
  <2>2. result # Unread
    BY MissingAssumption DEF Unread, Outcomes
  <2>3. /\ result = Verdict(document)
        /\ result.data # Missing =>
             status = IF result.issues = {} THEN "PROCESSED" ELSE "VALIDATION_FAILED"
    BY <1>1, <2>2 DEF ResultInv
  <2>4. ASSUME NEW data \in Readings, Answer(document).data = data
        PROVE  /\ result.issues = validateExtractedData(data)
               /\ status = IF result.issues = {} THEN "PROCESSED" ELSE "VALIDATION_FAILED"
    <3>1. data # Missing
      BY MissingAssumption
    <3> QED
      BY <2>3, <2>4, <3>1 DEF Verdict
  <2>5. result.outcome = Answer(document).outcome
    BY <2>3 DEF Verdict
  <2>6. CASE result.outcome = "SUCCESS"
    <3>1. Answer(document).data = buildExtraction(document.seed)
      BY <2>1, <2>5, <2>6, AnswerTypes
    <3>2. /\ buildExtraction(document.seed) \in Readings
          /\ Broken(buildExtraction(document.seed)) = {}
      BY <2>1, AnswerTypes, BuiltToBeAccepted
    <3>3. result.issues = {}
      BY <2>4, <3>1, <3>2, RulesReportOnce
    <3> QED
      BY <2>4, <2>6, <3>1, <3>2, <3>3
  <2>7. CASE result.outcome = "INVALID_RESULT"
    <3> DEFINE bad == buildInvalidExtraction(document.seed)
    <3>1. Answer(document).data = bad
      BY <2>1, <2>5, <2>7, AnswerTypes
    <3>2. bad \in Readings /\ \E f : Broken(bad) = {f}
      BY <2>1, AnswerTypes, BuiltToBeRejected
    <3> HIDE DEF bad
    <3>3. Broken(bad) # {} /\ Cardinality(Broken(bad)) = 1
      BY <3>2, FS_Singleton
    <3>4. result.issues # {} /\ Cardinality(result.issues) = 1
      BY <2>4, <3>1, <3>2, <3>3, RulesReportOnce
    <3> QED
      BY <2>4, <2>7, <3>1, <3>2, <3>4
  <2> QED
    BY <2>6, <2>7
<1> QED
  BY <1>1, ResultAlways, PTL

\* Every broken rule of whatever was read is reported, and none twice.
THEOREM BrokenRulesReportedOnce == Spec => []EveryBrokenRuleOnce
<1>1. ASSUME ResultInv PROVE EveryBrokenRuleOnce
  <2> SUFFICES ASSUME result.data # Missing
               PROVE  /\ {issue.field : issue \in result.issues} = Broken(result.data)
                      /\ Cardinality(result.issues) = Cardinality(Broken(result.data))
    BY DEF EveryBrokenRuleOnce, Broken
  <2>1. document \in Inputs /\ result = Verdict(document)
    BY <1>1 DEF ResultInv, Unread
  <2>2. /\ result.data = Answer(document).data
        /\ result.issues = validateExtractedData(result.data)
    BY <2>1 DEF Verdict
  <2>3. result.data \in Readings
    BY <2>1, <2>2, AnswerTypes
  <2> QED
    BY <2>2, <2>3, RulesReportOnce
<1> QED
  BY <1>1, ResultAlways, PTL

LEMMA WaitsStep == WaitsInv /\ [Next]_vars => WaitsInv'
<1> SUFFICES ASSUME WaitsInv, [Next]_vars
             PROVE  WaitsInv'
  OBVIOUS
<1>1. attempt \in Nat /\ waits \in Seq(Nat)
  BY DEF WaitsInv
<1>2. CASE Accept \/ Reject \/ GiveUp
  <2>1. attempt' = attempt + 1 /\ waits' = waits
    BY <1>2 DEF Accept, Reject, GiveUp, Read
  <2>2. status' \notin {"UPLOADED", "RETRY_PENDING"}
    BY <1>2 DEF Accept, Reject, GiveUp
  <2> QED
    BY <1>1, <2>1, <2>2 DEF WaitsInv
<1>3. CASE RetryLater
  <2>1. attempt' = attempt + 1 /\ status \in {"UPLOADED", "RETRY_PENDING"}
    BY <1>3 DEF RetryLater, Read
  <2>2. Len(waits) = attempt
    BY <2>1 DEF WaitsInv
  <2>3. PICK draw \in Draws : waits' = Append(waits, backoffMs(attempt', draw))
    BY <1>3 DEF RetryLater
  <2> DEFINE wait == backoffMs(attempt', draw)
  <2>4. Around(wait, attempt + 1)
    BY <1>1, <2>1, JitterIsBounded
  <2>5. wait \in Nat
    BY <2>4 DEF Around
  <2> HIDE DEF wait
  <2>6. waits' = Append(waits, wait)
    BY <2>3 DEF wait
  <2>7. waits' \in Seq(Nat) /\ Len(waits') = attempt'
    BY <1>1, <2>1, <2>2, <2>5, <2>6
  <2>8. ASSUME NEW i \in 1 .. Len(waits') PROVE Around(waits'[i], i)
    <3>1. CASE i = attempt + 1
      BY <1>1, <2>2, <2>4, <2>5, <2>6, <3>1
    <3>2. CASE i # attempt + 1
      <4>1. i \in 1 .. Len(waits) /\ waits'[i] = waits[i]
        BY <1>1, <2>1, <2>2, <2>5, <2>6, <2>7, <3>2
      <4> QED
        BY <4>1 DEF WaitsInv
    <3> QED
      BY <3>1, <3>2
  <2> QED
    BY <1>1, <2>1, <2>7, <2>8 DEF WaitsInv
<1>4. CASE UNCHANGED vars
  BY <1>4 DEF vars, WaitsInv
<1> QED
  BY <1>2, <1>3, <1>4 DEF Next

\* Waits grow for any number of attempts and any draws of the jitter.
THEOREM WaitsAlwaysGrow == Spec => []WaitsGrow
<1>1. Init => WaitsInv
  BY DEF Init, WaitsInv
<1>2. ASSUME WaitsInv PROVE WaitsGrow
  <2>1. waits \in Seq(Nat) /\ \A i \in 1 .. Len(waits) : Around(waits[i], i)
    BY <1>2 DEF WaitsInv
  <2>2. ASSUME NEW i \in DOMAIN waits PROVE waits[i] > 0
    <3>1. i \in Nat \ {0} /\ Around(waits[i], i)
      BY <2>1
    <3> DEFINE p == 2 ^ (i - 1)
    <3>2. p \in Nat \ {0}
      <4>1. i - 1 \in Nat
        BY <3>1
      <4> QED
        BY <4>1, PowerOfTwo
    <3>3. waits[i] \in Nat /\ 1500 * p <= waits[i]
      BY <3>1 DEF Around
    <3> HIDE DEF p
    <3> QED
      BY <3>2, <3>3
  <2>3. ASSUME NEW i \in 2 .. Len(waits) PROVE waits[i] > waits[i - 1]
    <3> DEFINE j == i - 1
    <3>1. j \in Nat \ {0} /\ j + 1 = i /\ j \in 1 .. Len(waits) /\ i \in 1 .. Len(waits)
      BY <2>1
    <3>2. Around(waits[j], j) /\ Around(waits[i], j + 1)
      BY <2>1, <3>1
    <3> HIDE DEF j
    <3>3. waits[j] < waits[i] /\ waits[j] \in Nat /\ waits[i] \in Nat
      BY <3>1, <3>2, NextIsLonger DEF Around
    <3> QED
      BY <3>3 DEF j
  <2> QED
    BY <2>2, <2>3 DEF WaitsGrow
<1> QED
  BY <1>1, <1>2, WaitsStep, PTL DEF Spec

================================================================================
