---- MODULE MCScheduler ----
EXTENDS Scheduler
\* Slots in the order of the code: Event_LCD, Event_SPU, Event_RTC, a device,
\* and a save that the cartridge finishes by itself.
MCPeriod == [i \in {SPU, RTC} |-> IF i = SPU THEN 4 ELSE 5]
====
