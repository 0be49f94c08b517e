------------------------------ MODULE MCEngine ------------------------------
EXTENDS Engine, TLC

MCRank == [performance |-> 2, efficiency |-> 1]
MCCore == (1 :> "performance") @@ (2 :> "performance") @@ (3 :> "efficiency")
MCBoundaries == {{1, 2}, {1, 2, 3}}
MCProc == {"self", "launcher", "cargo", "exec", "queued", "rival"}
MCParent == [self |-> "launcher", launcher |-> "cargo", cargo |-> "exec",
             exec |-> None, queued |-> None, rival |-> None]

Iterate ==
  [mode |-> "iterate", subprocess |-> FALSE, dry |-> FALSE, policy |-> None,
   suitePolicy |-> None, cpuSet |-> None, gate |-> TRUE, strict |-> FALSE,
   maxWaits |-> 1, saving |-> TRUE, lockDir |-> TRUE, groups |-> 1, min |-> 1, max |-> 2,
   auto |-> TRUE, pin |-> {1}, launchers |-> {}, queued |-> {"queued"}]

Confirm ==
  [Iterate EXCEPT !.mode = "confirm", !.subprocess = TRUE,
                  !.launchers = {"launcher"}]

MCConf ==
  {Confirm,
   [Confirm EXCEPT !.pin = None, !.policy = "performance", !.cpuSet = {1, 2}],
   [Confirm EXCEPT !.lockDir = FALSE, !.suitePolicy = "unrestricted"],
   [Confirm EXCEPT !.subprocess = FALSE],
   [Confirm EXCEPT !.dry = TRUE],
   [Iterate EXCEPT !.groups = 2, !.max = 1],
   [Iterate EXCEPT !.policy = "unrestricted", !.gate = FALSE, !.saving = FALSE],
   [Iterate EXCEPT !.pin = {3}, !.launchers = {"launcher"}]}
=============================================================================
