------------------------ MODULE MCSchedulerSnapshot ------------------------
(* One bucket with two accounts, one of them at first not schedulable.        *)
EXTENDS SchedulerSnapshot

MCFirstRows == {[a \in Accounts |-> IF a = "a" THEN "off" ELSE "on"]}

Setting(p, t, f, c) == [platform |-> p, team |-> t, faults |-> f, changes |-> c]
MCSettings ==
  {Setting("other", {"e1", "e2", "poller1", "request"}, {"fail"}, 2),
   Setting("other", {"e1", "poller1", "periodic"}, {"fail", "crash", "slow"}, 2),
   Setting("grok", {"e1", "e2", "poller1", "periodic"}, {"burst", "late", "lost"}, 2),
   Setting("other", {"e1", "poller1", "poller2"}, {"overlap"}, 2),
   Setting("other", {"e1", "poller1", "poller2"}, {"overlap", "fail"}, 1),
   Setting("other", {"e1", "poller1", "periodic"}, {"overlap", "lost", "crash"}, 1),
   Setting("other", {"e1", "periodic", "request"}, {"overlap", "crash", "slow"}, 1)}
=============================================================================
