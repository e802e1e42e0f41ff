----------------------------- MODULE MCVMapple -----------------------------
(* Small instances of the VMApple runner.                                  *)
EXTENDS VMapple

Request == [boot |-> "recovery", live |-> FALSE, ibec |-> FALSE, chain |-> FALSE,
            logo |-> FALSE, duration |-> FALSE, target |-> 26]
Direct    == { [Request EXCEPT !.boot = "macos", !.duration = d, !.target = t] :
                 d \in BOOLEAN, t \in Systems }
Supplied  == { [Request EXCEPT !.ibec = i] : i \in BOOLEAN }
Live      == { [Request EXCEPT !.live = TRUE, !.chain = c, !.logo = c, !.duration = c] :
                 c \in BOOLEAN }
MCConfigs == Direct \union Supplied \union Live
=============================================================================
