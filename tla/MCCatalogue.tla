----------------------------- MODULE MCCatalogue -----------------------------
(* Three opportunities at most, one card to a page and two on a shortlist:   *)
(* pages vanish and candidates are left out.  The premium option of one is   *)
(* cheaper than its standard one, which the form allows, and its highest     *)
(* target, 9.04 percent, is over 9 and shown as 9.0.  Another's term names   *)
(* no years.                                                                 *)
EXTENDS Catalogue

Plain ==
  [ city |-> "Ghent", place |-> "airport", spaces |-> 1, lease |-> << >>,
    visitors |-> "withheld", revenue |-> "contracted",
    mix |-> [s \in {"vehicle_parking"} |-> 1000],
    standard |-> [min |-> 12000, yield |-> 835], premium |-> None, green |-> None,
    capacity |-> 0 ]
Charging ==
  [ Plain EXCEPT !.place = "city", !.city = "Lyon", !.lease = <<10, 15>>, !.visitors = "modelled",
                 !.mix = [s \in {"vehicle_parking", "ev_charging"} |->
                            IF s = "ev_charging" THEN 300 ELSE 704],
                 !.standard = [min |-> 30000, yield |-> 810], !.premium = [min |-> 9000, yield |-> 890],
                 !.green = [min |-> 18000, yield |-> 904], !.capacity = 1000 ]
FormsMC == {Plain, Charging}
\* A draft from before the form asked for parking spaces.
Legacy == [FormValues(Plain) EXCEPT !.spaces = 0, !.lease = <<12>>]
Listed(f) == [FormValues(f) EXCEPT !.status = "published"]
SeedsMC == { [a \in 1 .. 3 |-> CASE a = 1 -> Listed(Charging) [] a = 2 -> Listed(Plain) [] a = 3 -> third] :
               third \in {None, Legacy} }
EditsMC == {{"standard", "mix"}}
OfferedMC ==
  [ city |-> {"all"}, min |-> {"all", "10to25"}, yield |-> {"all", "over9"},
    type |-> {"all"}, features |-> {"all", "multi"}, funding |-> {"all", "full"} ]
\* 8.35 as a double lies below 8.35.
BelowHalfMC == {835}
=============================================================================
