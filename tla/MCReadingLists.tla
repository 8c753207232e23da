--------------------------- MODULE MCReadingLists ---------------------------
(***************************************************************************)
(* Instances of ReadingLists for TLC: submissions s1 to s4 of one patron,  *)
(* s2 under another spelling of the address, s3 of the name, s4 under      *)
(* another name, and t1 of the same person to another tenant.              *)
(***************************************************************************)
EXTENDS ReadingLists, TLC

CONSTANTS s1, s2, s3, s4, t1

MCCharacters == {"J", "j", "d"}
MCLowerCase == [c \in MCCharacters |-> IF c = "J" THEN "j" ELSE c]

MCEmail == [s \in Subs |-> [local |-> IF s = s2 THEN <<"J", "d">> ELSE <<"j", "d">>,
                            domain |-> <<"d">>, tld |-> <<"j">>]]
MCName == [s \in Subs |-> CASE s = s3 -> <<<<"j", "d">>>>
                            [] s = s4 -> <<<<"j">>, <<"d", "d">>>>
                            [] OTHER -> <<<<"J", "d">>>>]
MCTenantOf == [s \in Subs |-> IF s = t1 THEN 2 ELSE 1]
=============================================================================
