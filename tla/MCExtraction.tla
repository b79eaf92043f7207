---------------------------- MODULE MCExtraction ----------------------------
(* Content hashes at the edges of every range the mock draws from, in every *)
(* mode, and readings with every kind of defect.                            *)
EXTENDS Extraction, TLC

Hash(revenue, month, day, shape, roll) ==
    [i \in 0 .. 10 |-> CASE i = 6 -> revenue [] i = 7 -> month [] i = 8 -> day
                         [] i = 9 -> shape [] i = 10 -> roll [] OTHER -> 0]

Hashes == {Hash(revenue, month, day, shape, roll) :
             revenue \in {0, 99, 65500}, month \in {1, 11}, day \in {27, 30, 65535},
             shape \in 0 .. 3, roll \in {69, 70, 81, 82, 91, 92}}

AnyHash == Hash(0, 0, 0, 0, 0)

Date(y, m, d) == [iso |-> TRUE, year |-> y, month |-> m, day |-> d]

Misreadings ==
    [companyName : {"text", "blank", Missing}, registrationNumber : {"text", Missing},
     address : {"text", "blank", Missing}, annualRevenue : {Missing, -1, 0},
     documentDate : {Missing, Date(2026, 2, 28), Date(2026, 2, 29), Date(2028, 2, 29),
                     Date(2026, 13, 1), [Date(2026, 15, 8) EXCEPT !.iso = FALSE]}]

MCInputs ==
    [mode : {"always_success", "always_timeout", "always_invalid", "random"},
          name : {{}, {"timeout"}, {"success"}, {"error", "success"}, {"invalid", "error"}},
          seed : Hashes, reading : {Missing}]
    \cup [mode : {"random"}, name : {{}}, seed : {AnyHash}, reading : Misreadings]
=============================================================================
