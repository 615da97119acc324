------------------------ MODULE DaemonLifecycleProofs ------------------------
(***************************************************************************)
(* What DaemonLifecycle keeps for any number of daemons, clients and       *)
(* edits, and under any interleaving, crash and expiry of a deadline.      *)
(***************************************************************************)
EXTENDS DaemonLifecycle, FiniteSetTheorems, TLAPS

-----------------------------------------------------------------------------
LEMMA TypesStart == Init => TypeOK
  BY LifecycleAssumption DEF Init, TypeOK, Phases, Places, Daemons

LEMMA TypesStep == TypeOK /\ [Next]_vars => TypeOK'
<1> SUFFICES ASSUME TypeOK, [Next]_vars PROVE TypeOK'
  OBVIOUS
<1> USE LifecycleAssumption DEF TypeOK, Phases, Places, daemon_vars, file_vars, world_vars, client_vars
<1>1. ASSUME NEW d \in Daemons, NotesMtime(d) PROVE TypeOK'
  BY <1>1 DEF NotesMtime, Moves
<1>2. ASSUME NEW d \in Daemons, LoadsSettings(d) PROVE TypeOK'
  BY <1>2 DEF LoadsSettings, Moves
<1>3. ASSUME NEW d \in Daemons, WritesPid(d) PROVE TypeOK'
  BY <1>3 DEF WritesPid, Moves
<1>4. ASSUME NEW d \in Daemons, ClearsSocket(d) PROVE TypeOK'
  BY <1>4 DEF ClearsSocket, Moves
<1>5. ASSUME NEW d \in Daemons, Binds(d) PROVE TypeOK'
  BY <1>5 DEF Binds, Moves
<1>6. ASSUME NEW d \in Daemons, ClosesListener(d) PROVE TypeOK'
  BY <1>6 DEF ClosesListener, Moves
<1>7. ASSUME NEW d \in Daemons, Releases(d) PROVE TypeOK'
  BY <1>7 DEF Releases, Moves
<1>8. ASSUME NEW d \in Daemons, UnlinksSocket(d) PROVE TypeOK'
  BY <1>8 DEF UnlinksSocket, Moves
<1>9. ASSUME NEW d \in Daemons, Exits(d) PROVE TypeOK'
  BY <1>9 DEF Exits, Moves
<1>10. ASSUME NEW d \in Daemons, Perishes(d) PROVE TypeOK'
  BY <1>10 DEF Perishes, Alive
<1>11. ASSUME NEW c \in Clients, Calls(c) PROVE TypeOK'
  BY <1>11 DEF Calls, Goto
<1>12. ASSUME NEW c \in Clients, Connects(c) PROVE TypeOK'
  <2>1. ASSUME NEW d \in Daemons, Accepted(c, d, "connecting"), Connects(c) PROVE TypeOK'
    <3>1. d # NoDaemon
      OBVIOUS
    <3>2. QED
      BY <2>1, <3>1 DEF Connects, Accepted, Goto
  <2>2. ASSUME \A d \in Daemons : ~Accepted(c, d, "connecting") PROVE TypeOK'
    BY <1>12, <2>2 DEF Connects, Goto
  <2>3. QED
    BY <1>12, <2>1, <2>2
<1>13. ASSUME NEW c \in Clients, Completes(c) PROVE TypeOK'
  BY <1>13 DEF Completes, Goto
<1>14. ASSUME NEW c \in Clients, Retries(c) PROVE TypeOK'
  <2>1. ASSUME NEW d \in Daemons, Accepted(c, d, "retrying"), Retries(c) PROVE TypeOK'
    <3>1. d # NoDaemon
      OBVIOUS
    <3>2. QED
      BY <2>1, <3>1 DEF Retries, Accepted, Goto
  <2>2. ASSUME \A d \in Daemons : ~Accepted(c, d, "retrying") PROVE TypeOK'
    BY <1>14, <2>2 DEF Retries, Goto
  <2>3. QED
    BY <1>14, <2>1, <2>2
<1>15. ASSUME NEW c \in Clients, Commands(c) PROVE TypeOK'
  BY <1>15 DEF Commands, Goto
<1>16. ASSUME NEW c \in Clients, ReadsPid(c) PROVE TypeOK'
  BY <1>16 DEF ReadsPid, Goto
<1>17. ASSUME NEW c \in Clients, AsksToStop(c) PROVE TypeOK'
  BY <1>17 DEF AsksToStop, Answering, Goto
<1>18. ASSUME NEW c \in Clients, SeesPidGone(c) PROVE TypeOK'
  BY <1>18 DEF SeesPidGone, Goto
<1>19. ASSUME NEW c \in Clients, StopWaitExpires(c) PROVE TypeOK'
  BY <1>19 DEF StopWaitExpires, Goto
<1>20. ASSUME NEW c \in Clients, Terminates(c) PROVE TypeOK'
  BY <1>20 DEF Terminates, AfterTerm, Alive, Goto
<1>21. ASSUME NEW c \in Clients, Kills(c) PROVE TypeOK'
  BY <1>21 DEF Kills, Goto
<1>22. ASSUME NEW c \in Clients, CleansUp(c) PROVE TypeOK'
  BY <1>22 DEF CleansUp, Goto
<1>23. ASSUME NEW c \in Clients, Stopped(c) PROVE TypeOK'
  BY <1>23 DEF Stopped, Goto
<1>24. ASSUME NEW c \in Clients, WaitsForSupervisor(c) PROVE TypeOK'
  BY <1>24 DEF WaitsForSupervisor, Goto
<1>25. ASSUME NEW c \in Clients, Starts(c) PROVE TypeOK'
  BY <1>25 DEF Starts, StartsItself, Spawns, Moves, Goto
<1>26. ASSUME NEW c \in Clients, SeesSocket(c) PROVE TypeOK'
  BY <1>26 DEF SeesSocket, Goto
<1>27. ASSUME NEW c \in Clients, GivesUp(c) PROVE TypeOK'
  BY <1>27 DEF GivesUp, Goto
<1>28. ASSUME Respawns PROVE TypeOK'
  BY <1>28 DEF Respawns, Spawns, Moves
<1>29. ASSUME EditsSettings PROVE TypeOK'
  BY <1>29 DEF EditsSettings
<1>30. ASSUME UNCHANGED vars PROVE TypeOK'
  BY <1>30 DEF vars
<1>31. ASSUME NEW d \in Daemons, RemovesPid(d) PROVE TypeOK'
  BY <1>31 DEF RemovesPid, Moves
<1>32. ASSUME NEW c \in Clients, ChecksPid(c) PROVE TypeOK'
  BY <1>32 DEF ChecksPid, Goto
<1>33. ASSUME NEW c \in Clients, UnlinksPid(c) PROVE TypeOK'
  BY <1>33 DEF UnlinksPid, Goto
<1>34. QED
  BY <1>1, <1>2, <1>3, <1>4, <1>5, <1>6, <1>7, <1>8, <1>9, <1>10, <1>11, <1>12, <1>13,
    <1>14, <1>15, <1>16, <1>17, <1>18, <1>19, <1>20, <1>21, <1>22, <1>23, <1>24, <1>25,
    <1>26, <1>27, <1>28, <1>29, <1>30, <1>31, <1>32, <1>33
  DEF Next, DaemonStep, ClientStep

-----------------------------------------------------------------------------
(* Settings: a daemon that has loaded them works with a version at least   *)
(* as new as the mtime it recorded, because it recorded the mtime first.   *)

Ready == {"loaded", "named", "cleared", "serving", "stopping", "draining", "released",
          "unlinked", "owning", "aborted"}

DaemonsFresh ==
  \A d \in Daemons : /\ phase[d] = "noted" => recorded[d] <= settings
                     /\ phase[d] \in Ready => recorded[d] <= loaded[d]

ClientsFresh ==
  \A c \in Callers :
    /\ asked[c] <= settings
    /\ pc[c] = "connected" => /\ phase[peer[c]] \in Ready \cup {"dead"}
                              /\ asked[c] <= loaded[peer[c]]

LEMMA FreshStarts == Init => DaemonsFresh /\ ClientsFresh
  BY DEF Init, DaemonsFresh, ClientsFresh, Ready, Clients

LEMMA DaemonsStep == TypeOK /\ DaemonsFresh /\ [Next]_vars => DaemonsFresh'
<1> SUFFICES ASSUME TypeOK, DaemonsFresh, [Next]_vars PROVE DaemonsFresh'
  OBVIOUS
<1> USE DEF TypeOK, DaemonsFresh, Ready, daemon_vars, file_vars, world_vars, client_vars
<1>1. ASSUME NEW d \in Daemons, NotesMtime(d) PROVE DaemonsFresh'
  BY <1>1 DEF NotesMtime, Moves
<1>2. ASSUME NEW d \in Daemons, LoadsSettings(d) PROVE DaemonsFresh'
  BY <1>2 DEF LoadsSettings, Moves
<1>3. ASSUME NEW d \in Daemons, WritesPid(d) PROVE DaemonsFresh'
  BY <1>3 DEF WritesPid, Moves
<1>4. ASSUME NEW d \in Daemons, ClearsSocket(d) PROVE DaemonsFresh'
  BY <1>4 DEF ClearsSocket, Moves
<1>5. ASSUME NEW d \in Daemons, Binds(d) PROVE DaemonsFresh'
  BY <1>5 DEF Binds, Moves
<1>6. ASSUME NEW d \in Daemons, ClosesListener(d) PROVE DaemonsFresh'
  BY <1>6 DEF ClosesListener, Moves
<1>7. ASSUME NEW d \in Daemons, Releases(d) PROVE DaemonsFresh'
  BY <1>7 DEF Releases, Moves
<1>8. ASSUME NEW d \in Daemons, UnlinksSocket(d) PROVE DaemonsFresh'
  BY <1>8 DEF UnlinksSocket, Moves
<1>9. ASSUME NEW d \in Daemons, Exits(d) PROVE DaemonsFresh'
  BY <1>9 DEF Exits, Moves
<1>10. ASSUME NEW d \in Daemons, Perishes(d) PROVE DaemonsFresh'
  BY <1>10 DEF Perishes, Alive
<1>11. ASSUME NEW c \in Clients, Calls(c) PROVE DaemonsFresh'
  BY <1>11 DEF Calls, Goto
<1>12. ASSUME NEW c \in Clients, Connects(c) PROVE DaemonsFresh'
  BY <1>12 DEF Connects, Accepted, Answering, Fresh, Goto
<1>13. ASSUME NEW c \in Clients, Completes(c) PROVE DaemonsFresh'
  BY <1>13 DEF Completes, Goto
<1>14. ASSUME NEW c \in Clients, Retries(c) PROVE DaemonsFresh'
  BY <1>14 DEF Retries, Accepted, Answering, Fresh, Goto
<1>15. ASSUME NEW c \in Clients, Commands(c) PROVE DaemonsFresh'
  BY <1>15 DEF Commands, Goto
<1>16. ASSUME NEW c \in Clients, ReadsPid(c) PROVE DaemonsFresh'
  BY <1>16 DEF ReadsPid, Goto
<1>17. ASSUME NEW c \in Clients, AsksToStop(c) PROVE DaemonsFresh'
  BY <1>17 DEF AsksToStop, Answering, Goto
<1>18. ASSUME NEW c \in Clients, SeesPidGone(c) PROVE DaemonsFresh'
  BY <1>18 DEF SeesPidGone, Goto
<1>19. ASSUME NEW c \in Clients, StopWaitExpires(c) PROVE DaemonsFresh'
  BY <1>19 DEF StopWaitExpires, Goto
<1>20. ASSUME NEW c \in Clients, Terminates(c) PROVE DaemonsFresh'
  BY <1>20 DEF Terminates, AfterTerm, Alive, Goto
<1>21. ASSUME NEW c \in Clients, Kills(c) PROVE DaemonsFresh'
  BY <1>21 DEF Kills, Goto
<1>22. ASSUME NEW c \in Clients, CleansUp(c) PROVE DaemonsFresh'
  BY <1>22 DEF CleansUp, Goto
<1>23. ASSUME NEW c \in Clients, Stopped(c) PROVE DaemonsFresh'
  BY <1>23 DEF Stopped, Goto
<1>24. ASSUME NEW c \in Clients, WaitsForSupervisor(c) PROVE DaemonsFresh'
  BY <1>24 DEF WaitsForSupervisor, Goto
<1>25. ASSUME NEW c \in Clients, Starts(c) PROVE DaemonsFresh'
  BY <1>25 DEF Starts, StartsItself, Spawns, Moves, Goto
<1>26. ASSUME NEW c \in Clients, SeesSocket(c) PROVE DaemonsFresh'
  BY <1>26 DEF SeesSocket, Goto
<1>27. ASSUME NEW c \in Clients, GivesUp(c) PROVE DaemonsFresh'
  BY <1>27 DEF GivesUp, Goto
<1>28. ASSUME Respawns PROVE DaemonsFresh'
  BY <1>28 DEF Respawns, Spawns, Moves
<1>29. ASSUME EditsSettings PROVE DaemonsFresh'
  BY <1>29 DEF EditsSettings
<1>30. ASSUME UNCHANGED vars PROVE DaemonsFresh'
  BY <1>30 DEF vars
<1>31. ASSUME NEW d \in Daemons, RemovesPid(d) PROVE DaemonsFresh'
  BY <1>31 DEF RemovesPid, Moves
<1>32. ASSUME NEW c \in Clients, ChecksPid(c) PROVE DaemonsFresh'
  BY <1>32 DEF ChecksPid, Goto
<1>33. ASSUME NEW c \in Clients, UnlinksPid(c) PROVE DaemonsFresh'
  BY <1>33 DEF UnlinksPid, Goto
<1>34. QED
  BY <1>1, <1>2, <1>3, <1>4, <1>5, <1>6, <1>7, <1>8, <1>9, <1>10, <1>11, <1>12, <1>13,
    <1>14, <1>15, <1>16, <1>17, <1>18, <1>19, <1>20, <1>21, <1>22, <1>23, <1>24, <1>25,
    <1>26, <1>27, <1>28, <1>29, <1>30, <1>31, <1>32, <1>33
  DEF Next, DaemonStep, ClientStep

LEMMA ClientsStep == TypeOK /\ DaemonsFresh /\ ClientsFresh /\ [Next]_vars => ClientsFresh'
<1> SUFFICES ASSUME TypeOK, DaemonsFresh, ClientsFresh, [Next]_vars PROVE ClientsFresh'
  OBVIOUS
<1> USE DEF TypeOK, ClientsFresh, Ready, Clients, daemon_vars, file_vars, world_vars, client_vars
<1>1. ASSUME NEW d \in Daemons, NotesMtime(d) PROVE ClientsFresh'
  BY <1>1 DEF NotesMtime, Moves
<1>2. ASSUME NEW d \in Daemons, LoadsSettings(d) PROVE ClientsFresh'
  BY <1>2 DEF LoadsSettings, Moves
<1>3. ASSUME NEW d \in Daemons, WritesPid(d) PROVE ClientsFresh'
  BY <1>3 DEF WritesPid, Moves
<1>4. ASSUME NEW d \in Daemons, ClearsSocket(d) PROVE ClientsFresh'
  BY <1>4 DEF ClearsSocket, Moves
<1>5. ASSUME NEW d \in Daemons, Binds(d) PROVE ClientsFresh'
  BY <1>5 DEF Binds, Moves
<1>6. ASSUME NEW d \in Daemons, ClosesListener(d) PROVE ClientsFresh'
  BY <1>6 DEF ClosesListener, Moves
<1>7. ASSUME NEW d \in Daemons, Releases(d) PROVE ClientsFresh'
  BY <1>7 DEF Releases, Moves
<1>8. ASSUME NEW d \in Daemons, UnlinksSocket(d) PROVE ClientsFresh'
  BY <1>8 DEF UnlinksSocket, Moves
<1>9. ASSUME NEW d \in Daemons, Exits(d) PROVE ClientsFresh'
  BY <1>9 DEF Exits, Moves
<1>10. ASSUME NEW d \in Daemons, Perishes(d) PROVE ClientsFresh'
  BY <1>10 DEF Perishes, Alive
<1>11. ASSUME NEW c \in Clients, Calls(c) PROVE ClientsFresh'
  BY <1>11 DEF Calls, Goto
<1>12. ASSUME NEW c \in Clients, Connects(c) PROVE ClientsFresh'
  <2>1. ASSUME NEW d \in Daemons, Accepted(c, d, "connecting"), Connects(c) PROVE ClientsFresh'
    <3>1. phase[d] = "serving" /\ recorded[d] = settings /\ recorded[d] <= loaded[d]
      BY <2>1 DEF Accepted, Answering, Fresh, DaemonsFresh
    <3>2. c \in Callers => asked[c] <= settings
      OBVIOUS
    <3>3. QED
      BY <2>1, <3>1, <3>2 DEF Connects, Accepted, Goto
  <2>2. ASSUME \A d \in Daemons : ~Accepted(c, d, "connecting") PROVE ClientsFresh'
    BY <1>12, <2>2 DEF Connects, Goto
  <2>3. QED
    BY <1>12, <2>1, <2>2
<1>13. ASSUME NEW c \in Clients, Completes(c) PROVE ClientsFresh'
  BY <1>13 DEF Completes, Goto
<1>14. ASSUME NEW c \in Clients, Retries(c) PROVE ClientsFresh'
  <2>1. ASSUME NEW d \in Daemons, Accepted(c, d, "retrying"), Retries(c) PROVE ClientsFresh'
    <3>1. phase[d] = "serving" /\ recorded[d] = settings /\ recorded[d] <= loaded[d]
      BY <2>1 DEF Accepted, Answering, Fresh, DaemonsFresh
    <3>2. c \in Callers => asked[c] <= settings
      OBVIOUS
    <3>3. QED
      BY <2>1, <3>1, <3>2 DEF Retries, Accepted, Goto
  <2>2. ASSUME \A d \in Daemons : ~Accepted(c, d, "retrying") PROVE ClientsFresh'
    BY <1>14, <2>2 DEF Retries, Goto
  <2>3. QED
    BY <1>14, <2>1, <2>2
<1>15. ASSUME NEW c \in Clients, Commands(c) PROVE ClientsFresh'
  BY <1>15 DEF Commands, Goto
<1>16. ASSUME NEW c \in Clients, ReadsPid(c) PROVE ClientsFresh'
  BY <1>16 DEF ReadsPid, Goto
<1>17. ASSUME NEW c \in Clients, AsksToStop(c) PROVE ClientsFresh'
  BY <1>17 DEF AsksToStop, Answering, Goto
<1>18. ASSUME NEW c \in Clients, SeesPidGone(c) PROVE ClientsFresh'
  BY <1>18 DEF SeesPidGone, Goto
<1>19. ASSUME NEW c \in Clients, StopWaitExpires(c) PROVE ClientsFresh'
  BY <1>19 DEF StopWaitExpires, Goto
<1>20. ASSUME NEW c \in Clients, Terminates(c) PROVE ClientsFresh'
  BY <1>20 DEF Terminates, AfterTerm, Alive, Goto
<1>21. ASSUME NEW c \in Clients, Kills(c) PROVE ClientsFresh'
  BY <1>21 DEF Kills, Goto
<1>22. ASSUME NEW c \in Clients, CleansUp(c) PROVE ClientsFresh'
  BY <1>22 DEF CleansUp, Goto
<1>23. ASSUME NEW c \in Clients, Stopped(c) PROVE ClientsFresh'
  BY <1>23 DEF Stopped, Goto
<1>24. ASSUME NEW c \in Clients, WaitsForSupervisor(c) PROVE ClientsFresh'
  BY <1>24 DEF WaitsForSupervisor, Goto
<1>25. ASSUME NEW c \in Clients, Starts(c) PROVE ClientsFresh'
  BY <1>25 DEF Starts, StartsItself, Spawns, Moves, Goto
<1>26. ASSUME NEW c \in Clients, SeesSocket(c) PROVE ClientsFresh'
  BY <1>26 DEF SeesSocket, Goto
<1>27. ASSUME NEW c \in Clients, GivesUp(c) PROVE ClientsFresh'
  BY <1>27 DEF GivesUp, Goto
<1>28. ASSUME Respawns PROVE ClientsFresh'
  BY <1>28 DEF Respawns, Spawns, Moves
<1>29. ASSUME EditsSettings PROVE ClientsFresh'
  BY <1>29 DEF EditsSettings
<1>30. ASSUME UNCHANGED vars PROVE ClientsFresh'
  BY <1>30 DEF vars
<1>31. ASSUME NEW d \in Daemons, RemovesPid(d) PROVE ClientsFresh'
  BY <1>31 DEF RemovesPid, Moves
<1>32. ASSUME NEW c \in Clients, ChecksPid(c) PROVE ClientsFresh'
  BY <1>32 DEF ChecksPid, Goto
<1>33. ASSUME NEW c \in Clients, UnlinksPid(c) PROVE ClientsFresh'
  BY <1>33 DEF UnlinksPid, Goto
<1>34. QED
  BY <1>1, <1>2, <1>3, <1>4, <1>5, <1>6, <1>7, <1>8, <1>9, <1>10, <1>11, <1>12, <1>13,
    <1>14, <1>15, <1>16, <1>17, <1>18, <1>19, <1>20, <1>21, <1>22, <1>23, <1>24, <1>25,
    <1>26, <1>27, <1>28, <1>29, <1>30, <1>31, <1>32, <1>33
  DEF Next, DaemonStep, ClientStep

-----------------------------------------------------------------------------
(* Supervision: until a restart command runs, every live daemon is the one *)
(* the supervisor waits for.                                               *)

Unrestarted == \A c \in Restarters : pc[c] = "idle"
OnlyChild   == supervised /\ Unrestarted => \A d \in Daemons : Alive(d) => d = child

LEMMA ChildStarts == Init => OnlyChild
  BY DEF Init, OnlyChild, Alive

LEMMA ChildStep == TypeOK /\ OnlyChild /\ [Next]_vars => OnlyChild'
<1> SUFFICES ASSUME TypeOK, OnlyChild, [Next]_vars PROVE OnlyChild'
  OBVIOUS
<1> USE DEF TypeOK, OnlyChild, Unrestarted, Alive, Clients, daemon_vars, file_vars, world_vars, client_vars
<1>1. ASSUME NEW d \in Daemons, NotesMtime(d) PROVE OnlyChild'
  BY <1>1 DEF NotesMtime, Moves
<1>2. ASSUME NEW d \in Daemons, LoadsSettings(d) PROVE OnlyChild'
  BY <1>2 DEF LoadsSettings, Moves
<1>3. ASSUME NEW d \in Daemons, WritesPid(d) PROVE OnlyChild'
  BY <1>3 DEF WritesPid, Moves
<1>4. ASSUME NEW d \in Daemons, ClearsSocket(d) PROVE OnlyChild'
  BY <1>4 DEF ClearsSocket, Moves
<1>5. ASSUME NEW d \in Daemons, Binds(d) PROVE OnlyChild'
  BY <1>5 DEF Binds, Moves
<1>6. ASSUME NEW d \in Daemons, ClosesListener(d) PROVE OnlyChild'
  BY <1>6 DEF ClosesListener, Moves
<1>7. ASSUME NEW d \in Daemons, Releases(d) PROVE OnlyChild'
  BY <1>7 DEF Releases, Moves
<1>8. ASSUME NEW d \in Daemons, UnlinksSocket(d) PROVE OnlyChild'
  BY <1>8 DEF UnlinksSocket, Moves
<1>9. ASSUME NEW d \in Daemons, Exits(d) PROVE OnlyChild'
  BY <1>9 DEF Exits, Moves
<1>10. ASSUME NEW d \in Daemons, Perishes(d) PROVE OnlyChild'
  BY <1>10 DEF Perishes, Alive
<1>11. ASSUME NEW c \in Clients, Calls(c) PROVE OnlyChild'
  BY <1>11 DEF Calls, Goto
<1>12. ASSUME NEW c \in Clients, Connects(c) PROVE OnlyChild'
  BY <1>12 DEF Connects, Accepted, Answering, Fresh, Goto
<1>13. ASSUME NEW c \in Clients, Completes(c) PROVE OnlyChild'
  BY <1>13 DEF Completes, Goto
<1>14. ASSUME NEW c \in Clients, Retries(c) PROVE OnlyChild'
  BY <1>14 DEF Retries, Accepted, Answering, Fresh, Goto
<1>15. ASSUME NEW c \in Clients, Commands(c) PROVE OnlyChild'
  BY <1>15 DEF Commands, Goto
<1>16. ASSUME NEW c \in Clients, ReadsPid(c) PROVE OnlyChild'
  BY <1>16 DEF ReadsPid, Goto
<1>17. ASSUME NEW c \in Clients, AsksToStop(c) PROVE OnlyChild'
  BY <1>17 DEF AsksToStop, Answering, Goto
<1>18. ASSUME NEW c \in Clients, SeesPidGone(c) PROVE OnlyChild'
  BY <1>18 DEF SeesPidGone, Goto
<1>19. ASSUME NEW c \in Clients, StopWaitExpires(c) PROVE OnlyChild'
  BY <1>19 DEF StopWaitExpires, Goto
<1>20. ASSUME NEW c \in Clients, Terminates(c) PROVE OnlyChild'
  BY <1>20 DEF Terminates, AfterTerm, Alive, Goto
<1>21. ASSUME NEW c \in Clients, Kills(c) PROVE OnlyChild'
  BY <1>21 DEF Kills, Goto
<1>22. ASSUME NEW c \in Clients, CleansUp(c) PROVE OnlyChild'
  BY <1>22 DEF CleansUp, Goto
<1>23. ASSUME NEW c \in Clients, Stopped(c) PROVE OnlyChild'
  BY <1>23 DEF Stopped, Goto
<1>24. ASSUME NEW c \in Clients, WaitsForSupervisor(c) PROVE OnlyChild'
  BY <1>24 DEF WaitsForSupervisor, Goto
<1>25. ASSUME NEW c \in Clients, Starts(c) PROVE OnlyChild'
  BY <1>25 DEF Starts, StartsItself, Spawns, Moves, Goto
<1>26. ASSUME NEW c \in Clients, SeesSocket(c) PROVE OnlyChild'
  BY <1>26 DEF SeesSocket, Goto
<1>27. ASSUME NEW c \in Clients, GivesUp(c) PROVE OnlyChild'
  BY <1>27 DEF GivesUp, Goto
<1>28. ASSUME Respawns PROVE OnlyChild'
  BY <1>28, LifecycleAssumption DEF Respawns, Spawns, Moves
<1>29. ASSUME EditsSettings PROVE OnlyChild'
  BY <1>29 DEF EditsSettings
<1>30. ASSUME UNCHANGED vars PROVE OnlyChild'
  BY <1>30 DEF vars
<1>31. ASSUME NEW d \in Daemons, RemovesPid(d) PROVE OnlyChild'
  BY <1>31 DEF RemovesPid, Moves
<1>32. ASSUME NEW c \in Clients, ChecksPid(c) PROVE OnlyChild'
  BY <1>32 DEF ChecksPid, Goto
<1>33. ASSUME NEW c \in Clients, UnlinksPid(c) PROVE OnlyChild'
  BY <1>33 DEF UnlinksPid, Goto
<1>34. QED
  BY <1>1, <1>2, <1>3, <1>4, <1>5, <1>6, <1>7, <1>8, <1>9, <1>10, <1>11, <1>12, <1>13,
    <1>14, <1>15, <1>16, <1>17, <1>18, <1>19, <1>20, <1>21, <1>22, <1>23, <1>24, <1>25,
    <1>26, <1>27, <1>28, <1>29, <1>30, <1>31, <1>32, <1>33
  DEF Next, DaemonStep, ClientStep

-----------------------------------------------------------------------------
LEMMA LifecycleInductive ==
  Spec => [](TypeOK /\ DaemonsFresh /\ ClientsFresh /\ OnlyChild)
<1>1. Init => TypeOK /\ DaemonsFresh /\ ClientsFresh /\ OnlyChild
  BY TypesStart, FreshStarts, ChildStarts
<1>2. TypeOK /\ DaemonsFresh /\ ClientsFresh /\ OnlyChild /\ [Next]_vars
        => (TypeOK /\ DaemonsFresh /\ ClientsFresh /\ OnlyChild)'
  BY TypesStep, DaemonsStep, ClientsStep, ChildStep
<1>3. QED
  BY <1>1, <1>2, PTL DEF Spec

(* Every variable keeps its type, and a client is tied to a daemon exactly *)
(* while its connection is open.                                           *)
THEOREM TypeCorrect == Spec => []TypeOK
  BY LifecycleInductive, PTL

(* A request is answered from settings at least as new as those in place   *)
(* when it was made.                                                       *)
THEOREM RequestsAreServedFresh == Spec => []ServedFresh
<1>1. TypeOK /\ ClientsFresh => ServedFresh
  <2> SUFFICES ASSUME TypeOK, ClientsFresh, NEW c \in Callers, pc[c] = "connected"
               PROVE  loaded[peer[c]] >= asked[c]
    BY DEF ServedFresh
  <2>1. asked[c] <= loaded[peer[c]]
    BY DEF ClientsFresh
  <2>2. c \in Clients /\ peer[c] \in Daemons
    <3>1. peer[c] # NoDaemon
      BY DEF TypeOK, Clients
    <3>2. QED
      BY <3>1 DEF TypeOK, Clients
  <2>3. loaded[peer[c]] \in Nat /\ asked[c] \in Nat
    BY <2>2 DEF TypeOK
  <2>4. QED
    BY <2>1, <2>3
<1>2. QED
  BY <1>1, LifecycleInductive, PTL

(* Until somebody runs the restart command, a supervised system has one    *)
(* daemon process at a time.                                               *)
THEOREM OneDaemonUnderSupervision == Spec => []OneSupervisedDaemon
<1>1. OnlyChild => OneSupervisedDaemon
  <2> SUFFICES ASSUME OnlyChild, supervised, Unrestarted
               PROVE  Cardinality({d \in Daemons : Alive(d)}) <= 1
    BY DEF OneSupervisedDaemon, Unrestarted
  <2>1. {d \in Daemons : Alive(d)} \subseteq {child}
    BY DEF OnlyChild
  <2>2. IsFiniteSet({child}) /\ Cardinality({child}) = 1
    BY FS_Singleton
  <2>3. Cardinality({d \in Daemons : Alive(d)}) <= Cardinality({child})
    BY <2>1, <2>2, FS_Subset
  <2>4. QED
    BY <2>2, <2>3
<1>2. QED
  BY <1>1, LifecycleInductive, PTL

(* Until somebody runs the restart command, no daemon of a supervised      *)
(* system removes the PID file of another: the one that goes down is the   *)
(* only one alive, at the look and at the removal alike.                   *)
THEOREM SuccessorsKeepTheirPid == Spec => SuccessorKeepsPid
<1> DEFINE Kept == supervised /\ (\A c \in Restarters : pc[c] = "idle") =>
                     \A d \in Daemons : pid_file = d /\ Alive(d) /\ UNCHANGED pc /\ pid_file' = NoDaemon
                                           => phase'[d] = "dead"
<1>1. TypeOK /\ OnlyChild /\ [Next]_vars => [Kept]_vars
  <2> SUFFICES ASSUME TypeOK, OnlyChild, [Next]_vars PROVE Kept
    OBVIOUS
  <2> USE LifecycleAssumption DEF TypeOK, Kept, Alive, Phases, daemon_vars, file_vars, world_vars, client_vars
  <2>1. ASSUME NEW d \in Daemons, NotesMtime(d) PROVE Kept
    BY <2>1 DEF NotesMtime, Moves
  <2>2. ASSUME NEW d \in Daemons, LoadsSettings(d) PROVE Kept
    BY <2>2 DEF LoadsSettings, Moves
  <2>3. ASSUME NEW d \in Daemons, WritesPid(d) PROVE Kept
    BY <2>3 DEF WritesPid, Moves
  <2>4. ASSUME NEW d \in Daemons, ClearsSocket(d) PROVE Kept
    BY <2>4 DEF ClearsSocket, Moves
  <2>5. ASSUME NEW d \in Daemons, Binds(d) PROVE Kept
    BY <2>5 DEF Binds, Moves
  <2>6. ASSUME NEW d \in Daemons, ClosesListener(d) PROVE Kept
    BY <2>6 DEF ClosesListener, Moves
  <2>7. ASSUME NEW d \in Daemons, Releases(d) PROVE Kept
    BY <2>7 DEF Releases, Moves
  <2>8. ASSUME NEW d \in Daemons, UnlinksSocket(d) PROVE Kept
    BY <2>8 DEF UnlinksSocket, Moves
  <2>9. ASSUME NEW d \in Daemons, Exits(d) PROVE Kept
    BY <2>9 DEF Exits, Moves
  <2>10. ASSUME NEW d \in Daemons, Perishes(d) PROVE Kept
    BY <2>10 DEF Perishes, Alive
  <2>11. ASSUME NEW c \in Clients, Calls(c) PROVE Kept
    BY <2>11 DEF Calls, Goto
  <2>12. ASSUME NEW c \in Clients, Connects(c) PROVE Kept
    BY <2>12 DEF Connects, Accepted, Answering, Fresh, Goto
  <2>13. ASSUME NEW c \in Clients, Completes(c) PROVE Kept
    BY <2>13 DEF Completes, Goto
  <2>14. ASSUME NEW c \in Clients, Retries(c) PROVE Kept
    BY <2>14 DEF Retries, Accepted, Answering, Fresh, Goto
  <2>15. ASSUME NEW c \in Clients, Commands(c) PROVE Kept
    BY <2>15 DEF Commands, Goto
  <2>16. ASSUME NEW c \in Clients, ReadsPid(c) PROVE Kept
    BY <2>16 DEF ReadsPid, Goto
  <2>17. ASSUME NEW c \in Clients, AsksToStop(c) PROVE Kept
    BY <2>17 DEF AsksToStop, Answering, Goto
  <2>18. ASSUME NEW c \in Clients, SeesPidGone(c) PROVE Kept
    BY <2>18 DEF SeesPidGone, Goto
  <2>19. ASSUME NEW c \in Clients, StopWaitExpires(c) PROVE Kept
    BY <2>19 DEF StopWaitExpires, Goto
  <2>20. ASSUME NEW c \in Clients, Terminates(c) PROVE Kept
    BY <2>20 DEF Terminates, AfterTerm, Alive, Goto
  <2>21. ASSUME NEW c \in Clients, Kills(c) PROVE Kept
    BY <2>21 DEF Kills, Goto
  <2>22. ASSUME NEW c \in Clients, CleansUp(c) PROVE Kept
    BY <2>22 DEF CleansUp, Goto
  <2>23. ASSUME NEW c \in Clients, Stopped(c) PROVE Kept
    BY <2>23 DEF Stopped, Goto
  <2>24. ASSUME NEW c \in Clients, WaitsForSupervisor(c) PROVE Kept
    BY <2>24 DEF WaitsForSupervisor, Goto
  <2>25. ASSUME NEW c \in Clients, Starts(c) PROVE Kept
    BY <2>25 DEF Starts, StartsItself, Spawns, Moves, Goto
  <2>26. ASSUME NEW c \in Clients, SeesSocket(c) PROVE Kept
    BY <2>26 DEF SeesSocket, Goto
  <2>27. ASSUME NEW c \in Clients, GivesUp(c) PROVE Kept
    BY <2>27 DEF GivesUp, Goto
  <2>28. ASSUME Respawns PROVE Kept
    BY <2>28 DEF Respawns, Spawns, Moves
  <2>29. ASSUME EditsSettings PROVE Kept
    BY <2>29 DEF EditsSettings
  <2>30. ASSUME UNCHANGED vars PROVE Kept
    BY <2>30 DEF vars
  <2>31. ASSUME NEW d \in Daemons, RemovesPid(d) PROVE Kept
    <3>1. Alive(d)
      BY <2>31 DEF RemovesPid, Moves
    <3>2. supervised /\ Unrestarted => \A e \in Daemons : Alive(e) => e = d
      BY <3>1 DEF OnlyChild
    <3>3. phase'[d] = "dead"
      BY <2>31 DEF RemovesPid, Moves
    <3>4. QED
      BY <3>2, <3>3 DEF Unrestarted
  <2>32. ASSUME NEW c \in Clients, ChecksPid(c) PROVE Kept
    BY <2>32 DEF ChecksPid, Goto
  <2>33. ASSUME NEW c \in Clients, UnlinksPid(c) PROVE Kept
    BY <2>33 DEF UnlinksPid, Goto
  <2>34. QED
    BY <2>1, <2>2, <2>3, <2>4, <2>5, <2>6, <2>7, <2>8, <2>9, <2>10, <2>11, <2>12, <2>13,
      <2>14, <2>15, <2>16, <2>17, <2>18, <2>19, <2>20, <2>21, <2>22, <2>23, <2>24, <2>25,
      <2>26, <2>27, <2>28, <2>29, <2>30, <2>31, <2>32, <2>33
    DEF Next, DaemonStep, ClientStep
<1>2. QED
  BY <1>1, LifecycleInductive, PTL DEF Spec, SuccessorKeepsPid
=============================================================================
