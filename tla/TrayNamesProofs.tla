--------------------------- MODULE TrayNamesProofs ---------------------------
(***************************************************************************)
(* Proofs about TrayNames, for any number of trays, of children, of starts *)
(* of the program, and of kills and failing calls.                         *)
(***************************************************************************)
EXTENDS TrayNames, TLAPS

\* What main and its children do, and how they end.
MainLabel == Opening \cup Handling \cup Ended \cup {"off", "fork", "loop"}
ChildLabel == Handling \cup {"off", "work", "post", "reraised", "killed"}

NamesTypes ==
  /\ semName \in [Tray -> Run \cup {None}]
  /\ shmName \in [Tray -> Run \cup {None}]
  /\ semOf \in [Run -> [Tray -> Run \cup {None}]]
  /\ shmOf \in [Run -> [Tray -> Run \cup {None}]]
  /\ named \in [Run -> SUBSET Tray]
  /\ at \in [Proc -> Tray]
  /\ holds \in [Proc -> SUBSET Tray]
  /\ pc \in [Proc -> MainLabel \cup ChildLabel]

Labels ==
  /\ \A r \in Run : pc[main(r)] \in MainLabel /\ holds[main(r)] = {}
  /\ \A r \in Run, c \in Child : pc[<<r, c>>] \in ChildLabel

(***************************************************************************)
(* How far shmInit of run r has come: exactly the trays before the current *)
(* one are open; children exist only after the last.                       *)
(***************************************************************************)
Progress(r) ==
  LET here == pc[main(r)]
  IN /\ here = "off" => at[main(r)] = 0
     /\ here = "sem_open" => at[main(r)] \in named[r]
     /\ here \in Opening \cup {"off"} => \A c \in Child : pc[<<r, c>>] = "off"
     /\ here \in {"off", "name", "sem_open"} =>
          \A t \in Tray : semOf[r][t] # None <=> t < at[main(r)]
     /\ here \in {"shm_open", "map"} =>
          \A t \in Tray : semOf[r][t] # None <=> t <= at[main(r)]
     /\ here \in {"off", "name", "sem_open", "shm_open"} =>
          \A t \in Tray : shmOf[r][t] # None <=> t < at[main(r)]
     /\ here = "map" => \A t \in Tray : shmOf[r][t] # None <=> t <= at[main(r)]
     /\ (here = "fork" \/ \E c \in Child : pc[<<r, c>>] # "off") =>
          \A t \in Tray : semOf[r][t] # None /\ shmOf[r][t] # None
     /\ \A t \in Tray : semOf[r][t] # None => t \in named[r]

(***************************************************************************)
(* An object that somebody has open, or that is linked, was created by the *)
(* run it is named after, which has it open itself.                        *)
(***************************************************************************)
Created ==
  \A t \in Tray :
    /\ \A r \in Run : semOf[r][t] # None => semOf[semOf[r][t]][t] = semOf[r][t]
    /\ \A r \in Run : shmOf[r][t] # None => shmOf[shmOf[r][t]][t] = shmOf[r][t]
    /\ semName[t] # None => semOf[semName[t]][t] = semName[t]
    /\ shmName[t] # None => shmOf[shmName[t]][t] = shmName[t]

\* A taken semaphore is at 0, and only one process took it.
Values ==
  /\ semVal \in [Tray -> [Run -> Nat]]
  /\ \A t \in Tray, o \in Run : semVal[t][o] <= 1
  /\ \A p \in Proc : \A t \in holds[p] :
       semOf[p[1]][t] # None /\ semVal[t][semOf[p[1]][t]] = 0
  /\ \A p, q \in Proc : \A t \in holds[p] \cap holds[q] :
       p # q => semOf[p[1]][t] # semOf[q[1]][t]

\* A linked semaphore at 0 has a holder, and a holder past it in cleanup unlinked it.
Past(p, t) == pc[p] = "reraised" \/ (pc[p] \in Handling /\ at[p] > t)

Usable ==
  /\ \A t \in Tray : semName[t] # None /\ semVal[t][semName[t]] = 0 =>
       \E p \in Proc : t \in holds[p] /\ semOf[p[1]][t] = semName[t]
  /\ \A p \in Proc : \A t \in holds[p] :
       pc[p] # "off" /\ (Past(p, t) => semName[t] # semOf[p[1]][t])

\* Somebody is left to unlink a name that is linked, or was killed or failed.
WillUnlinkSem(p, t) ==
  \/ pc[p] \in {"killed", "failed"}
  \/ Living(p) /\ t \in named[p[1]] /\ (pc[p] \in Handling => at[p] <= t)

WillUnlinkShm(p, t) ==
  \/ pc[p] \in {"killed", "failed"}
  \/ Living(p) /\ (pc[p] = "shm_unlink" => at[p] <= t) /\ (pc[p] = "sem_unlink" => at[p] < t)

Owned ==
  \A t \in Tray :
    /\ semName[t] # None => \E p \in Proc : WillUnlinkSem(p, t)
    /\ shmName[t] # None => \E p \in Proc : WillUnlinkShm(p, t)

(***************************************************************************)
(* As long as no run opened its objects while another one cleaned up, a    *)
(* linked memory object goes with the linked semaphore.                    *)
(***************************************************************************)
Apart == \A r \in Run, p \in Proc : pc[main(r)] \in Opening => pc[p] \notin Handling

Matched ==
  /\ \A r \in Run : pc[main(r)] = "shm_open" =>
       semName[at[main(r)]] = semOf[r][at[main(r)]]
  /\ \A p \in Proc : pc[p] = "sem_unlink" => shmName[at[p]] = None
  /\ \A t \in Tray : shmName[t] # None =>
       semName[t] # None /\ \A r \in Run : shmOf[r][t] = shmName[t] => semOf[r][t] = semName[t]
  /\ \A t \in Tray, r, x \in Run :
       shmOf[r][t] # None /\ shmOf[r][t] = shmOf[x][t] => semOf[r][t] = semOf[x][t]

Paired == quiet => Apart /\ Matched

NamesInv ==
  NamesTypes /\ Labels /\ (\A r \in Run : Progress(r)) /\ Created

----------------------------------------------------------------------------
\* The trays are 0, 1, ... without a gap, and no run has the number None.
LEMMA TrayFacts ==
  /\ 0 \in Tray /\ None \notin Run
  /\ \A t \in Tray : t \in Nat /\ 0 <= t
  /\ \A s, t \in Tray : s < t => s + 1 \in Tray /\ s + 1 <= t
  /\ \A s, t \in Tray : s + 1 \notin Tray => t <= s
  BY NamesAssumption DEF Tray, Run, None

\* A process is a run and a role.
LEMMA ProcFacts ==
  /\ \A p \in Proc : p[1] \in Run /\ p[2] \in Role /\ p = <<p[1], p[2]>>
  /\ \A r \in Run : main(r) \in Proc /\ main(r)[1] = r /\ main(r)[2] = "main"
  /\ \A r \in Run, c \in Child : <<r, c>> \in Proc /\ <<r, c>>[1] = r /\ <<r, c>>[2] = c
  /\ \A r, x \in Run : r # x => main(r) # main(x)
  /\ \A r, x \in Run, c \in Child : <<x, c>> # main(r)
  /\ \A r, x \in Run, b, c \in Child : <<r, b>> = <<x, c>> => r = x /\ b = c
  /\ \A p \in Proc : p = main(p[1]) \/ \E c \in Child : p = <<p[1], c>>
  BY NamesAssumption DEF Proc, Role, main

\* What the steps of shmInit change, point by point.
SemFound(r) == IF semName[at[main(r)]] # None THEN semName[at[main(r)]] ELSE r
ShmFound(r) == IF shmName[at[main(r)]] # None THEN shmName[at[main(r)]] ELSE r

\* sem_open opens the linked semaphore or creates the run's own.
LEMMA SemOpenEffect ==
  ASSUME NamesTypes, NEW r \in Run, SemOpen(r)
  PROVE  /\ pc[main(r)] = "sem_open" /\ at[main(r)] \in Tray /\ SemFound(r) \in Run
         /\ semName' = [semName EXCEPT ![at[main(r)]] = SemFound(r)]
         /\ \A x \in Run, u \in Tray :
              semOf'[x][u] = IF x = r /\ u = at[main(r)] THEN SemFound(r) ELSE semOf[x][u]
         /\ semOf' \in [Run -> [Tray -> Run \cup {None}]]
         /\ pc' = [pc EXCEPT ![main(r)] = "shm_open"]
         /\ UNCHANGED <<shmName, shmOf, named, at, holds, isRunning, quiet>>
<1>1. /\ pc[main(r)] = "sem_open" /\ at[main(r)] \in Tray
      /\ semName' = [semName EXCEPT ![at[main(r)]] = SemFound(r)]
      /\ semOf' = [semOf EXCEPT ![r][at[main(r)]] = SemFound(r)]
      /\ pc' = [pc EXCEPT ![main(r)] = "shm_open"]
      /\ UNCHANGED <<shmName, shmOf, named, at, holds, isRunning, quiet>>
  BY ProcFacts DEF SemOpen, SemFound, Goto, NamesTypes
<1>2. SemFound(r) \in Run
  BY <1>1 DEF SemFound, NamesTypes
<1> QED
  BY <1>1, <1>2 DEF NamesTypes

\* shm_open opens the linked buffer or creates the run's own.
LEMMA ShmOpenEffect ==
  ASSUME NamesTypes, NEW r \in Run, ShmOpen(r)
  PROVE  /\ pc[main(r)] = "shm_open" /\ at[main(r)] \in Tray /\ ShmFound(r) \in Run
         /\ shmName' = [shmName EXCEPT ![at[main(r)]] = ShmFound(r)]
         /\ \A x \in Run, u \in Tray :
              shmOf'[x][u] = IF x = r /\ u = at[main(r)] THEN ShmFound(r) ELSE shmOf[x][u]
         /\ shmOf' \in [Run -> [Tray -> Run \cup {None}]]
         /\ pc' = [pc EXCEPT ![main(r)] = "map"]
         /\ UNCHANGED <<semName, semVal, semOf, named, at, holds, isRunning, quiet>>
<1>1. /\ pc[main(r)] = "shm_open" /\ at[main(r)] \in Tray
      /\ shmName' = [shmName EXCEPT ![at[main(r)]] = ShmFound(r)]
      /\ shmOf' = [shmOf EXCEPT ![r][at[main(r)]] = ShmFound(r)]
      /\ pc' = [pc EXCEPT ![main(r)] = "map"]
      /\ UNCHANGED <<semName, semVal, semOf, named, at, holds, isRunning, quiet>>
  BY ProcFacts DEF ShmOpen, ShmFound, Goto, NamesTypes
<1>2. ShmFound(r) \in Run
  BY <1>1 DEF ShmFound, NamesTypes
<1> QED
  BY <1>1, <1>2 DEF NamesTypes

\* The steps of main that leave the kernel's objects and the handles alone.
LEMMA MainEffect ==
  ASSUME NamesTypes, NEW r \in Run, Start(r) \/ Map(r) \/ Fail(r)
  PROVE  /\ UNCHANGED <<kernel, handles, holds, isRunning>>
         /\ \E l \in MainLabel, n \in Tray :
              /\ pc' = [pc EXCEPT ![main(r)] = l] /\ at' = [at EXCEPT ![main(r)] = n]
              /\ \/ Start(r) /\ pc[main(r)] = "off" /\ l = "name" /\ n = at[main(r)]
                 \/ Map(r) /\ pc[main(r)] = "map" /\ l = "name" /\ n = at[main(r)] + 1
                 \/ Map(r) /\ pc[main(r)] = "map" /\ l = "fork" /\ \A t \in Tray : t <= at[main(r)]
                 \/ Fail(r) /\ pc[main(r)] \in Opening \cup {"fork"} /\ l = "failed"
<1>1. main(r) \in Proc /\ at \in [Proc -> Tray] /\ at[main(r)] \in Tray /\ 0 \in Tray
  BY ProcFacts, TrayFacts DEF NamesTypes
<1>2. CASE Start(r)
  <2>1. /\ pc[main(r)] = "off" /\ pc' = [pc EXCEPT ![main(r)] = "name"]
        /\ UNCHANGED <<kernel, handles, at, holds, isRunning>>
    BY <1>2 DEF Start, Goto
  <2>2. at' = [at EXCEPT ![main(r)] = at[main(r)]]
    BY <1>1, <2>1
  <2> QED
    BY <1>1, <1>2, <2>1, <2>2 DEF MainLabel, Opening
<1>3. CASE Map(r)
  <2>1. pc[main(r)] = "map" /\ UNCHANGED <<kernel, handles, holds, isRunning>>
    BY <1>3 DEF Map
  <2>2. CASE at[main(r)] + 1 \in Tray
    <3>1. /\ at' = [at EXCEPT ![main(r)] = at[main(r)] + 1]
          /\ pc' = [pc EXCEPT ![main(r)] = "name"]
      BY <1>3, <2>2 DEF Map, Goto
    <3> QED
      BY <1>3, <2>1, <2>2, <3>1 DEF MainLabel, Opening
  <2>3. CASE at[main(r)] + 1 \notin Tray
    <3>1. at' = [at EXCEPT ![main(r)] = 0] /\ pc' = [pc EXCEPT ![main(r)] = "fork"]
      BY <1>3, <2>3 DEF Map, Goto
    <3>2. \A t \in Tray : t <= at[main(r)]
      BY <1>1, <2>3, TrayFacts
    <3> QED
      BY <1>1, <1>3, <2>1, <3>1, <3>2 DEF MainLabel
  <2> QED
    BY <2>2, <2>3
<1>4. CASE Fail(r)
  <2>1. /\ pc[main(r)] \in Opening \cup {"fork"} /\ at' = [at EXCEPT ![main(r)] = 0]
        /\ pc' = [pc EXCEPT ![main(r)] = "failed"] /\ UNCHANGED <<kernel, handles, holds, isRunning>>
    BY <1>4 DEF Fail, Goto
  <2> QED
    BY <1>1, <1>4, <2>1 DEF MainLabel, Ended
<1> QED
  BY <1>2, <1>3, <1>4

\* fork starts one child and moves main on.
LEMMA ForkEffect ==
  ASSUME NamesTypes, NEW r \in Run, Fork(r)
  PROVE  /\ UNCHANGED <<kernel, handles, at, holds, isRunning, quiet>> /\ pc[main(r)] = "fork"
         /\ \E c \in Child, l \in {"loop", "fork"} :
              /\ pc[<<r, c>>] = "off"
              /\ \A p \in Proc : pc'[p] = IF p = main(r) THEN l
                                          ELSE IF p = <<r, c>> THEN "work" ELSE pc[p]
              /\ pc' \in [Proc -> MainLabel \cup ChildLabel]
<1>1. pc[main(r)] = "fork" /\ UNCHANGED <<kernel, handles, at, holds, isRunning, quiet>>
  BY DEF Fork
<1>2. PICK i \in DOMAIN Handlers :
        /\ pc[<<r, Handlers[i]>>] = "off"
        /\ pc' = [pc EXCEPT ![<<r, Handlers[i]>>] = "work",
                            ![main(r)] = IF i = Len(Handlers) THEN "loop" ELSE "fork"]
  BY DEF Fork
<1> DEFINE c == Handlers[i]
           l == IF i = Len(Handlers) THEN "loop" ELSE "fork"
<1>3. c \in Child /\ l \in {"loop", "fork"}
  BY DEF Child
<1>4. <<r, c>> \in Proc /\ main(r) \in Proc /\ <<r, c>> # main(r)
  BY <1>3, ProcFacts
<1>5. pc' = [pc EXCEPT ![<<r, c>>] = "work", ![main(r)] = l]
  BY <1>2
<1>6. pc[<<r, c>>] = "off"
  BY <1>2
<1> HIDE DEF c, l
<1>7. \A p \in Proc : pc'[p] = IF p = main(r) THEN l ELSE IF p = <<r, c>> THEN "work" ELSE pc[p]
  BY <1>4, <1>5 DEF NamesTypes
<1>8. pc' \in [Proc -> MainLabel \cup ChildLabel]
  BY <1>3, <1>4, <1>5 DEF NamesTypes, MainLabel, ChildLabel
<1> QED
  BY <1>1, <1>3, <1>6, <1>7, <1>8

\* SIGINT sends processes of one run that run into their handlers.
LEMMA SigintEffect ==
  ASSUME NamesTypes, NEW r \in Run, NEW S \in SUBSET Role, Sigint(r, S)
  PROVE  /\ UNCHANGED <<kernel, handles, holds>>
         /\ \A p \in Proc :
              \/ pc'[p] = pc[p] /\ at'[p] = at[p] /\ ~(p[1] = r /\ p[2] \in S)
              \/ /\ Living(p) /\ pc[p] \notin Handling /\ p[1] = r /\ p[2] \in S
                 /\ pc'[p] = "shm_unlink" /\ at'[p] = 0
         /\ pc' \in [Proc -> MainLabel \cup ChildLabel] /\ at' \in [Proc -> Tray]
<1>1. /\ \A c \in S : Living(<<r, c>>) /\ pc[<<r, c>>] \notin Handling
      /\ pc' = [p \in Proc |-> IF p[1] = r /\ p[2] \in S THEN "shm_unlink" ELSE pc[p]]
      /\ at' = [p \in Proc |-> IF p[1] = r /\ p[2] \in S THEN 0 ELSE at[p]]
      /\ UNCHANGED <<kernel, handles, holds>>
  BY DEF Sigint
<1>2. ASSUME NEW p \in Proc, p[1] = r, p[2] \in S PROVE Living(p) /\ pc[p] \notin Handling
  <2>1. p = <<r, p[2]>>
    BY <1>2, ProcFacts
  <2> QED
    BY <1>1, <1>2, <2>1
<1>3. pc' \in [Proc -> MainLabel \cup ChildLabel]
  BY <1>1 DEF NamesTypes, MainLabel, Handling
<1>4. at' \in [Proc -> Tray]
  BY <1>1, TrayFacts DEF NamesTypes
<1> QED
  BY <1>1, <1>2, <1>3, <1>4

\* The steps of cleanup, and SIGKILL.
LEMMA CleanupEffect ==
  ASSUME NamesTypes, NEW p \in Proc, ShmUnlink(p) \/ SemUnlink(p) \/ Sigkill(p)
  PROVE  /\ UNCHANGED <<semVal, handles, holds, isRunning, quiet>>
         /\ \E l \in Handling \cup {"reraised", "killed"}, n \in Tray :
              /\ pc' = [pc EXCEPT ![p] = l] /\ at' = [at EXCEPT ![p] = n]
              /\ \/ /\ pc[p] = "shm_unlink" /\ l = "sem_unlink" /\ n = at[p]
                    /\ shmName' = [shmName EXCEPT ![at[p]] = None] /\ UNCHANGED semName
                 \/ /\ pc[p] = "sem_unlink"
                    /\ \/ l = "shm_unlink" /\ n = at[p] + 1
                       \/ l = "reraised" /\ \A t \in Tray : t <= at[p]
                    /\ semName' = IF at[p] \in named[p[1]] THEN [semName EXCEPT ![at[p]] = None]
                                                           ELSE semName
                    /\ UNCHANGED shmName
                 \/ Living(p) /\ l = "killed" /\ UNCHANGED <<semName, shmName>>
<1> USE DEF kernel
<1>1. at \in [Proc -> Tray] /\ at[p] \in Tray /\ 0 \in Tray
  BY TrayFacts DEF NamesTypes
<1>2. CASE ShmUnlink(p)
  <2>1. /\ pc[p] = "shm_unlink" /\ pc' = [pc EXCEPT ![p] = "sem_unlink"]
        /\ shmName' = [shmName EXCEPT ![at[p]] = None]
        /\ UNCHANGED <<semName, semVal, handles, at, holds, isRunning, quiet>>
    BY <1>2 DEF ShmUnlink, Goto
  <2>2. at' = [at EXCEPT ![p] = at[p]]
    BY <1>1, <2>1
  <2> QED
    BY <1>1, <2>1, <2>2 DEF Handling
<1>3. CASE SemUnlink(p)
  <2>1. /\ pc[p] = "sem_unlink"
        /\ semName' = IF at[p] \in named[p[1]] THEN [semName EXCEPT ![at[p]] = None] ELSE semName
        /\ UNCHANGED <<shmName, semVal, handles, holds, isRunning, quiet>>
    BY <1>3 DEF SemUnlink
  <2>2. CASE at[p] + 1 \in Tray
    <3>1. at' = [at EXCEPT ![p] = at[p] + 1] /\ pc' = [pc EXCEPT ![p] = "shm_unlink"]
      BY <1>3, <2>2 DEF SemUnlink, Goto
    <3> QED
      BY <2>1, <2>2, <3>1 DEF Handling
  <2>3. CASE at[p] + 1 \notin Tray
    <3>1. at' = [at EXCEPT ![p] = 0] /\ pc' = [pc EXCEPT ![p] = "reraised"]
      BY <1>3, <2>3 DEF SemUnlink, Goto
    <3>2. \A t \in Tray : t <= at[p]
      BY <1>1, <2>3, TrayFacts
    <3> QED
      BY <1>1, <2>1, <3>1, <3>2
  <2> QED
    BY <2>2, <2>3
<1>4. CASE Sigkill(p)
  <2>1. /\ Living(p) /\ at' = [at EXCEPT ![p] = 0] /\ pc' = [pc EXCEPT ![p] = "killed"]
        /\ UNCHANGED <<kernel, handles, holds, isRunning, quiet>>
    BY <1>4 DEF Sigkill, Goto
  <2> QED
    BY <1>1, <2>1
<1> QED
  BY <1>2, <1>3, <1>4

\* A child at work takes or posts one semaphore through its run's handle.
LEMMA ChildEffect ==
  ASSUME NamesTypes, NEW r \in Run, NEW c \in Child, NEW t \in Tray,
         Wait(r, c, t) \/ Post(r, c, t)
  PROVE  /\ UNCHANGED <<semName, shmName, handles, at, quiet>>
         /\ pc[<<r, c>>] \in {"work", "post"}
         /\ \E l \in {"work", "post"} : pc' = [pc EXCEPT ![<<r, c>>] = l]
         /\ \/ /\ Wait(r, c, t) /\ holds' = [holds EXCEPT ![<<r, c>>] = @ \cup {t}]
               /\ semVal[t][semOf[r][t]] > 0
               /\ semVal' = [semVal EXCEPT ![t][semOf[r][t]] = @ - 1]
            \/ /\ Post(r, c, t) /\ holds' = [holds EXCEPT ![<<r, c>>] = @ \ {t}]
               /\ t \in holds[<<r, c>>]
               /\ semVal' = [semVal EXCEPT ![t][semOf[r][t]] = @ + 1]
         /\ holds' \in [Proc -> SUBSET Tray]
<1>1. <<r, c>> \in Proc
  BY ProcFacts
<1>2. CASE Wait(r, c, t)
  <2>1. /\ UNCHANGED <<semName, shmName, handles, at, quiet>> /\ pc[<<r, c>>] = "work"
        /\ \E l \in {"work", "post"} : pc' = [pc EXCEPT ![<<r, c>>] = l]
        /\ semVal[t][semOf[r][t]] > 0
        /\ holds' = [holds EXCEPT ![<<r, c>>] = @ \cup {t}]
        /\ semVal' = [semVal EXCEPT ![t][semOf[r][t]] = @ - 1]
    BY <1>2 DEF Wait, Goto
  <2>2. holds' \in [Proc -> SUBSET Tray]
    BY <2>1 DEF NamesTypes
  <2> QED
    BY <1>2, <2>1, <2>2
<1>3. CASE Post(r, c, t)
  <2>1. /\ UNCHANGED <<semName, shmName, handles, at, quiet>> /\ pc[<<r, c>>] = "post"
        /\ \E l \in {"work", "post"} : pc' = [pc EXCEPT ![<<r, c>>] = l]
        /\ t \in holds[<<r, c>>]
        /\ holds' = [holds EXCEPT ![<<r, c>>] = @ \ {t}]
        /\ semVal' = [semVal EXCEPT ![t][semOf[r][t]] = @ + 1]
    BY <1>3 DEF Post, Goto
  <2>2. holds' \in [Proc -> SUBSET Tray]
    BY <2>1 DEF NamesTypes
  <2> QED
    BY <1>3, <2>1, <2>2
<1> QED
  BY <1>2, <1>3

\* shmInit fills in the semaphore's name.
LEMMA NameEffect ==
  ASSUME NamesTypes, NEW r \in Run, Name(r)
  PROVE  /\ UNCHANGED <<kernel, semOf, shmOf, at, holds, isRunning, quiet>>
         /\ pc[main(r)] = "name" /\ pc' = [pc EXCEPT ![main(r)] = "sem_open"]
         /\ named' = [named EXCEPT ![r] = @ \cup {at[main(r)]}]
         /\ named' \in [Run -> SUBSET Tray] /\ at[main(r)] \in Tray
<1>1. /\ UNCHANGED <<kernel, semOf, shmOf, at, holds, isRunning, quiet>>
      /\ pc[main(r)] = "name" /\ pc' = [pc EXCEPT ![main(r)] = "sem_open"]
      /\ named' = [named EXCEPT ![r] = @ \cup {at[main(r)]}]
  BY DEF Name, Goto
<1>2. at[main(r)] \in Tray
  BY ProcFacts DEF NamesTypes
<1> QED
  BY <1>1, <1>2 DEF NamesTypes

----------------------------------------------------------------------------
\* The variables keep their types.
LEMMA TypesStep ==
  ASSUME NamesTypes, [Next]_vars
  PROVE  NamesTypes'
<1> USE DEF kernel, handles
<1>1. ASSUME NEW r \in Run, Name(r) PROVE NamesTypes'
  <2>1. /\ pc' = [pc EXCEPT ![main(r)] = "sem_open"] /\ named' \in [Run -> SUBSET Tray]
        /\ UNCHANGED <<kernel, semOf, shmOf, at, holds>>
    BY <1>1, NameEffect
  <2> QED
    BY <2>1 DEF NamesTypes, MainLabel, Opening
<1>2. ASSUME NEW r \in Run, SemOpen(r) PROVE NamesTypes'
  <2>1. /\ SemFound(r) \in Run /\ semName' = [semName EXCEPT ![at[main(r)]] = SemFound(r)]
        /\ semOf' \in [Run -> [Tray -> Run \cup {None}]]
        /\ pc' = [pc EXCEPT ![main(r)] = "shm_open"] /\ UNCHANGED <<shmName, shmOf, named, at, holds>>
    BY <1>2, SemOpenEffect
  <2> QED
    BY <2>1 DEF NamesTypes, MainLabel, Opening
<1>3. ASSUME NEW r \in Run, ShmOpen(r) PROVE NamesTypes'
  <2>1. /\ ShmFound(r) \in Run /\ shmName' = [shmName EXCEPT ![at[main(r)]] = ShmFound(r)]
        /\ shmOf' \in [Run -> [Tray -> Run \cup {None}]]
        /\ pc' = [pc EXCEPT ![main(r)] = "map"] /\ UNCHANGED <<semName, semOf, named, at, holds>>
    BY <1>3, ShmOpenEffect
  <2> QED
    BY <2>1 DEF NamesTypes, MainLabel, Opening
<1>4. ASSUME NEW r \in Run, Start(r) \/ Map(r) \/ Fail(r) PROVE NamesTypes'
  <2>1. PICK l \in MainLabel, n \in Tray :
          pc' = [pc EXCEPT ![main(r)] = l] /\ at' = [at EXCEPT ![main(r)] = n]
    BY <1>4, MainEffect
  <2>2. UNCHANGED <<kernel, handles, holds>>
    BY <1>4, MainEffect
  <2> QED
    BY <2>1, <2>2 DEF NamesTypes
<1>5. ASSUME NEW r \in Run, Fork(r) PROVE NamesTypes'
  BY <1>5, ForkEffect DEF NamesTypes
<1>6. ASSUME NEW r \in Run, NEW S \in SUBSET Role, Sigint(r, S) PROVE NamesTypes'
  BY <1>6, SigintEffect DEF NamesTypes
<1>7. ASSUME NEW r \in Run, NEW c \in Child, NEW t \in Tray, Wait(r, c, t) \/ Post(r, c, t)
      PROVE  NamesTypes'
  <2>1. PICK l \in {"work", "post"} : pc' = [pc EXCEPT ![<<r, c>>] = l]
    BY <1>7, ChildEffect
  <2>2. UNCHANGED <<semName, shmName, handles, at>> /\ holds' \in [Proc -> SUBSET Tray]
    BY <1>7, ChildEffect
  <2> QED
    BY <2>1, <2>2 DEF NamesTypes, ChildLabel
<1>8. ASSUME NEW p \in Proc, ShmUnlink(p) \/ SemUnlink(p) \/ Sigkill(p) PROVE NamesTypes'
  <2>1. PICK l \in Handling \cup {"reraised", "killed"}, n \in Tray :
          /\ pc' = [pc EXCEPT ![p] = l] /\ at' = [at EXCEPT ![p] = n]
          /\ shmName' = shmName \/ shmName' = [shmName EXCEPT ![at[p]] = None]
          /\ semName' = semName \/ semName' = [semName EXCEPT ![at[p]] = None]
    BY <1>8, CleanupEffect
  <2>2. UNCHANGED <<handles, holds>>
    BY <1>8, CleanupEffect
  <2> QED
    BY <2>1, <2>2 DEF NamesTypes, ChildLabel
<1>9. CASE UNCHANGED vars
  BY <1>9 DEF vars, NamesTypes
<1> QED
  BY <1>1, <1>2, <1>3, <1>4, <1>5, <1>6, <1>7, <1>8, <1>9 DEF Next

\* main and the children keep to their own labels, and main takes no semaphore.
LEMMA LabelsStep ==
  ASSUME NamesTypes, Labels, [Next]_vars
  PROVE  Labels'
<1> USE DEF kernel, handles
<1>1. ASSUME NEW r \in Run, NEW l \in MainLabel, pc' = [pc EXCEPT ![main(r)] = l], UNCHANGED holds
      PROVE  Labels'
  BY <1>1, ProcFacts DEF NamesTypes, Labels
<1>2. ASSUME NEW r \in Run, Name(r) \/ SemOpen(r) \/ ShmOpen(r) PROVE Labels'
  <2>1. UNCHANGED holds /\ \E l \in Opening : pc' = [pc EXCEPT ![main(r)] = l]
    BY <1>2, NameEffect, SemOpenEffect, ShmOpenEffect DEF Opening
  <2> QED
    BY <1>1, <2>1 DEF MainLabel
<1>3. ASSUME NEW r \in Run, Start(r) \/ Map(r) \/ Fail(r) PROVE Labels'
  BY <1>1, <1>3, MainEffect
<1>4. ASSUME NEW r \in Run, Fork(r) PROVE Labels'
  <2>1. PICK c \in Child, l \in {"loop", "fork"} :
          \A p \in Proc : pc'[p] = IF p = main(r) THEN l ELSE IF p = <<r, c>> THEN "work" ELSE pc[p]
    BY <1>4, ForkEffect
  <2>2. UNCHANGED holds
    BY <1>4, ForkEffect
  <2> QED
    BY <2>1, <2>2, ProcFacts DEF Labels, MainLabel, ChildLabel
<1>5. ASSUME NEW r \in Run, NEW S \in SUBSET Role, Sigint(r, S) PROVE Labels'
  <2>1. UNCHANGED holds /\ \A p \in Proc : pc'[p] = pc[p] \/ pc'[p] = "shm_unlink"
    BY <1>5, SigintEffect
  <2> QED
    BY <2>1, ProcFacts DEF Labels, MainLabel, ChildLabel, Handling
<1>6. ASSUME NEW r \in Run, NEW c \in Child, NEW t \in Tray, Wait(r, c, t) \/ Post(r, c, t)
      PROVE  Labels'
  <2>1. PICK l \in {"work", "post"} : pc' = [pc EXCEPT ![<<r, c>>] = l]
    BY <1>6, ChildEffect
  <2>2. \A p \in Proc : p # <<r, c>> => holds'[p] = holds[p]
    <3>1. \/ holds' = [holds EXCEPT ![<<r, c>>] = @ \cup {t}]
          \/ holds' = [holds EXCEPT ![<<r, c>>] = @ \ {t}]
      BY <1>6, ChildEffect
    <3> QED
      BY <3>1 DEF NamesTypes
  <2> QED
    BY <2>1, <2>2, ProcFacts DEF Labels, NamesTypes, ChildLabel
<1>7. ASSUME NEW p \in Proc, ShmUnlink(p) \/ SemUnlink(p) \/ Sigkill(p) PROVE Labels'
  <2>1. PICK l \in Handling \cup {"reraised", "killed"} : pc' = [pc EXCEPT ![p] = l]
    BY <1>7, CleanupEffect
  <2>2. UNCHANGED holds
    BY <1>7, CleanupEffect
  <2> QED
    BY <2>1, <2>2, ProcFacts DEF Labels, NamesTypes, MainLabel, ChildLabel, Ended
<1>8. CASE UNCHANGED vars
  BY <1>8 DEF vars, Labels
<1> QED
  BY <1>2, <1>3, <1>4, <1>5, <1>6, <1>7, <1>8 DEF Next

\* Progress of a run that the step does not touch, or whose main has left shmInit.
LEMMA ProgressKept ==
  ASSUME NEW x \in Run, Progress(x),
         \/ pc'[main(x)] = pc[main(x)] /\ at'[main(x)] = at[main(x)]
         \/ pc'[main(x)] \notin Opening \cup {"off", "fork"},
         \A c \in Child : pc'[<<x, c>>] = "off" <=> pc[<<x, c>>] = "off",
         \A t \in Tray : semOf'[x][t] = semOf[x][t] /\ shmOf'[x][t] = shmOf[x][t],
         named'[x] = named[x]
  PROVE  Progress(x)'
  BY DEF Progress, Opening

\* Every run keeps its Progress.
LEMMA ProgressStep ==
  ASSUME NamesTypes, Labels, \A r \in Run : Progress(r), [Next]_vars, NEW x \in Run
  PROVE  Progress(x)'
<1> USE DEF kernel, handles
<1>1. Progress(x) /\ main(x) \in Proc /\ at[main(x)] \in Tray
  BY ProcFacts DEF NamesTypes
<1>2. ASSUME NEW r \in Run, NEW l, pc' = [pc EXCEPT ![main(r)] = l]
      PROVE  /\ pc'[main(r)] = l /\ \A c \in Child : pc'[<<x, c>>] = pc[<<x, c>>]
             /\ r # x => pc'[main(x)] = pc[main(x)]
  BY <1>2, ProcFacts DEF NamesTypes
<1>3. ASSUME NEW r \in Run, Name(r) PROVE Progress(x)'
  <2>1. /\ UNCHANGED <<semOf, shmOf, at>>
        /\ pc[main(r)] = "name" /\ pc' = [pc EXCEPT ![main(r)] = "sem_open"]
        /\ named' = [named EXCEPT ![r] = @ \cup {at[main(r)]}]
    BY <1>3, NameEffect
  <2>2. named'[r] = named[r] \cup {at[main(r)]} /\ (r # x => named'[x] = named[x])
    BY <2>1 DEF NamesTypes
  <2>3. CASE r # x
    BY <1>1, <1>2, <2>1, <2>2, <2>3, ProgressKept
  <2>4. CASE r = x
    <3>1. pc'[main(x)] = "sem_open" /\ \A c \in Child : pc'[<<x, c>>] = pc[<<x, c>>]
      BY <1>2, <2>1, <2>4
    <3>2. at'[main(x)] \in named'[x] /\ named[x] \subseteq named'[x]
      BY <2>1, <2>2, <2>4
    <3> QED
      BY <1>1, <2>1, <2>4, <3>1, <3>2 DEF Progress, Opening
  <2> QED
    BY <2>3, <2>4
<1>4. ASSUME NEW r \in Run, SemOpen(r) PROVE Progress(x)'
  <2>1. /\ pc[main(r)] = "sem_open" /\ at[main(r)] \in Tray /\ SemFound(r) \in Run
        /\ \A u \in Tray :
             semOf'[x][u] = IF x = r /\ u = at[main(r)] THEN SemFound(r) ELSE semOf[x][u]
        /\ pc' = [pc EXCEPT ![main(r)] = "shm_open"]
        /\ UNCHANGED <<shmOf, named, at>>
    BY <1>4, SemOpenEffect
  <2>2. CASE r # x
    BY <1>1, <1>2, <2>1, <2>2, ProgressKept
  <2>3. CASE r = x
    <3>1. \A t \in Tray : semOf'[x][t] # None <=> t <= at[main(x)]
      <4>1. \A t \in Tray : t \in Nat
        BY TrayFacts
      <4>2. SemFound(r) # None
        BY <2>1, TrayFacts
      <4>3. \A t \in Tray : semOf[x][t] # None <=> t < at[main(x)]
        BY <1>1, <2>1, <2>3 DEF Progress
      <4> QED
        BY <1>1, <2>1, <2>3, <4>1, <4>2, <4>3
    <3>2. at[main(x)] \in named[x]
      BY <1>1, <2>1, <2>3 DEF Progress
    <3>3. pc'[main(x)] = "shm_open" /\ \A c \in Child : pc'[<<x, c>>] = pc[<<x, c>>]
      BY <1>2, <2>1, <2>3
    <3>4. \A t \in Tray : semOf'[x][t] # None => t \in named'[x]
      BY <1>1, <2>1, <2>3, <3>2 DEF Progress
    <3> QED
      BY <1>1, <2>1, <2>3, <3>1, <3>3, <3>4 DEF Progress, Opening
  <2> QED
    BY <2>2, <2>3
<1>5. ASSUME NEW r \in Run, ShmOpen(r) PROVE Progress(x)'
  <2>1. /\ pc[main(r)] = "shm_open" /\ at[main(r)] \in Tray /\ ShmFound(r) \in Run
        /\ \A u \in Tray :
             shmOf'[x][u] = IF x = r /\ u = at[main(r)] THEN ShmFound(r) ELSE shmOf[x][u]
        /\ pc' = [pc EXCEPT ![main(r)] = "map"]
        /\ UNCHANGED <<semOf, named, at>>
    BY <1>5, ShmOpenEffect
  <2>2. CASE r # x
    BY <1>1, <1>2, <2>1, <2>2, ProgressKept
  <2>3. CASE r = x
    <3>1. \A t \in Tray : shmOf'[x][t] # None <=> t <= at[main(x)]
      <4>1. \A t \in Tray : t \in Nat
        BY TrayFacts
      <4>2. ShmFound(r) # None
        BY <2>1, TrayFacts
      <4>3. \A t \in Tray : shmOf[x][t] # None <=> t < at[main(x)]
        BY <1>1, <2>1, <2>3 DEF Progress
      <4> QED
        BY <1>1, <2>1, <2>3, <4>1, <4>2, <4>3
    <3>2. pc'[main(x)] = "map" /\ \A c \in Child : pc'[<<x, c>>] = pc[<<x, c>>]
      BY <1>2, <2>1, <2>3
    <3> QED
      BY <1>1, <2>1, <2>3, <3>1, <3>2 DEF Progress, Opening
  <2> QED
    BY <2>2, <2>3
<1>6. ASSUME NEW r \in Run, Start(r) \/ Map(r) \/ Fail(r) PROVE Progress(x)'
  <2>1. UNCHANGED <<semOf, shmOf, named>>
    BY <1>6, MainEffect
  <2>2. PICK l \in MainLabel, n \in Tray :
          /\ pc' = [pc EXCEPT ![main(r)] = l] /\ at' = [at EXCEPT ![main(r)] = n]
          /\ \/ Start(r) /\ pc[main(r)] = "off" /\ l = "name" /\ n = at[main(r)]
             \/ Map(r) /\ pc[main(r)] = "map" /\ l = "name" /\ n = at[main(r)] + 1
             \/ Map(r) /\ pc[main(r)] = "map" /\ l = "fork" /\ \A t \in Tray : t <= at[main(r)]
             \/ Fail(r) /\ pc[main(r)] \in Opening \cup {"fork"} /\ l = "failed"
    BY <1>6, MainEffect
  <2>3. at'[main(r)] = n /\ (r # x => at'[main(x)] = at[main(x)])
    BY <2>2, ProcFacts DEF NamesTypes
  <2>4. CASE r # x
    BY <1>1, <1>2, <2>1, <2>2, <2>3, <2>4, ProgressKept
  <2>5. CASE r = x
    <3>1. pc'[main(x)] = l /\ \A c \in Child : pc'[<<x, c>>] = pc[<<x, c>>]
      BY <1>2, <2>2, <2>5
    <3>2. CASE pc[main(r)] = "off" /\ l = "name" /\ n = at[main(r)]
      BY <1>1, <2>1, <2>3, <2>5, <3>1, <3>2 DEF Progress, Opening
    <3>3. CASE pc[main(r)] = "map" /\ l = "name" /\ n = at[main(r)] + 1
      <4>1. \A t \in Tray : t <= at[main(x)] <=> t < at[main(x)] + 1
        BY <1>1, TrayFacts
      <4> QED
        BY <1>1, <2>1, <2>3, <2>5, <3>1, <3>3, <4>1 DEF Progress, Opening
    <3>4. CASE pc[main(r)] = "map" /\ l = "fork" /\ \A t \in Tray : t <= at[main(r)]
      BY <1>1, <2>1, <2>3, <2>5, <3>1, <3>4 DEF Progress, Opening
    <3>5. CASE l = "failed"
      BY <1>1, <2>1, <2>5, <3>1, <3>5, ProgressKept DEF Opening
    <3> QED
      BY <2>2, <3>2, <3>3, <3>4, <3>5
  <2> QED
    BY <2>4, <2>5
<1>7. ASSUME NEW r \in Run, Fork(r) PROVE Progress(x)'
  <2>1. UNCHANGED <<semOf, shmOf, named, at>> /\ pc[main(r)] = "fork"
    BY <1>7, ForkEffect
  <2>2. PICK c \in Child, l \in {"loop", "fork"} :
          \A p \in Proc : pc'[p] = IF p = main(r) THEN l ELSE IF p = <<r, c>> THEN "work" ELSE pc[p]
    BY <1>7, ForkEffect
  <2>3. CASE r # x
    <3>1. pc'[main(x)] = pc[main(x)] /\ \A b \in Child : pc'[<<x, b>>] = pc[<<x, b>>]
      BY <2>2, <2>3, ProcFacts
    <3> QED
      BY <1>1, <2>1, <3>1, ProgressKept
  <2>4. CASE r = x
    <3>1. pc'[main(x)] = l
      BY <2>2, <2>4, ProcFacts
    <3> QED
      BY <1>1, <2>1, <2>4, <3>1 DEF Progress, Opening
  <2> QED
    BY <2>3, <2>4
<1>8. ASSUME NEW r \in Run, NEW S \in SUBSET Role, Sigint(r, S) PROVE Progress(x)'
  <2>1. /\ UNCHANGED <<semOf, shmOf, named>>
        /\ \A p \in Proc : \/ pc'[p] = pc[p] /\ at'[p] = at[p]
                           \/ Living(p) /\ pc'[p] = "shm_unlink"
    BY <1>8, SigintEffect
  <2>2. \A c \in Child : pc'[<<x, c>>] = "off" <=> pc[<<x, c>>] = "off"
    BY <2>1, ProcFacts DEF Living
  <2> QED
    BY <1>1, <2>1, <2>2, ProgressKept DEF Opening
<1>9. ASSUME NEW r \in Run, NEW c \in Child, NEW t \in Tray, Wait(r, c, t) \/ Post(r, c, t)
      PROVE  Progress(x)'
  <2>1. UNCHANGED <<semOf, shmOf, named, at>> /\ pc[<<r, c>>] \in {"work", "post"}
    BY <1>9, ChildEffect
  <2>2. PICK l \in {"work", "post"} : pc' = [pc EXCEPT ![<<r, c>>] = l]
    BY <1>9, ChildEffect
  <2>3. pc'[main(x)] = pc[main(x)]
    BY <2>2, ProcFacts DEF NamesTypes
  <2>4. \A b \in Child : pc'[<<x, b>>] = "off" <=> pc[<<x, b>>] = "off"
    BY <2>1, <2>2, ProcFacts DEF NamesTypes
  <2> QED
    BY <1>1, <2>1, <2>3, <2>4, ProgressKept
<1>10. ASSUME NEW p \in Proc, ShmUnlink(p) \/ SemUnlink(p) \/ Sigkill(p) PROVE Progress(x)'
  <2>1. UNCHANGED <<semOf, shmOf, named>>
    BY <1>10, CleanupEffect
  <2>2. PICK l \in Handling \cup {"reraised", "killed"}, n \in Tray :
          /\ pc' = [pc EXCEPT ![p] = l] /\ at' = [at EXCEPT ![p] = n] /\ pc[p] # "off"
    BY <1>10, CleanupEffect DEF Living
  <2>3. \A b \in Child : pc'[<<x, b>>] = "off" <=> pc[<<x, b>>] = "off"
    BY <2>2, ProcFacts DEF NamesTypes, Handling
  <2>4. CASE p = main(x)
    <3>1. pc'[main(x)] = l
      BY <1>1, <2>2, <2>4 DEF NamesTypes
    <3> QED
      BY <1>1, <2>1, <2>3, <3>1, ProgressKept DEF Opening, Handling
  <2>5. CASE p # main(x)
    <3>1. pc'[main(x)] = pc[main(x)] /\ at'[main(x)] = at[main(x)]
      BY <1>1, <2>2, <2>5 DEF NamesTypes
    <3> QED
      BY <1>1, <2>1, <2>3, <3>1, ProgressKept
  <2> QED
    BY <2>4, <2>5
<1>11. CASE UNCHANGED vars
  BY <1>1, <1>11, ProgressKept DEF vars
<1> QED
  BY <1>3, <1>4, <1>5, <1>6, <1>7, <1>8, <1>9, <1>10, <1>11 DEF Next

\* Before run r opens tray t's object, nobody has one that r created.
LEMMA NotYetCreated ==
  ASSUME Created, NEW r \in Run, NEW t \in Tray
  PROVE  /\ semOf[r][t] = None => semName[t] # r /\ \A x \in Run : semOf[x][t] # r
         /\ shmOf[r][t] = None => shmName[t] # r /\ \A x \in Run : shmOf[x][t] # r
<1>1. r # None
  BY TrayFacts
<1> QED
  BY <1>1 DEF Created

\* While main is at sem_open or shm_open, the tray it works on is not open yet.
LEMMA NotYetOpen ==
  ASSUME NamesTypes, NEW r \in Run, Progress(r)
  PROVE  /\ pc[main(r)] = "sem_open" =>
              semOf[r][at[main(r)]] = None /\ shmOf[r][at[main(r)]] = None
         /\ pc[main(r)] = "shm_open" =>
              semOf[r][at[main(r)]] # None /\ shmOf[r][at[main(r)]] = None
<1>1. at[main(r)] \in Tray /\ at[main(r)] \in Nat
  BY ProcFacts, TrayFacts DEF NamesTypes
<1>2. ~(at[main(r)] < at[main(r)]) /\ at[main(r)] <= at[main(r)]
  BY <1>1
<1> QED
  BY <1>1, <1>2 DEF Progress

\* Objects stay created.
LEMMA CreatedStep ==
  ASSUME NamesTypes, \A r \in Run : Progress(r), Created, [Next]_vars
  PROVE  Created'
<1> USE DEF kernel, handles
<1>1. ASSUME UNCHANGED <<semOf, shmOf>>,
             \A t \in Tray : semName'[t] = semName[t] \/ semName'[t] = None,
             \A t \in Tray : shmName'[t] = shmName[t] \/ shmName'[t] = None
      PROVE  Created'
  BY <1>1 DEF Created
<1>2. ASSUME NEW r \in Run, SemOpen(r) PROVE Created'
  <2> DEFINE t == at[main(r)]
             o == SemFound(r)
  <2>1. /\ pc[main(r)] = "sem_open" /\ t \in Tray /\ o \in Run
        /\ semName' = [semName EXCEPT ![t] = o]
        /\ \A x \in Run, u \in Tray : semOf'[x][u] = IF x = r /\ u = t THEN o ELSE semOf[x][u]
        /\ UNCHANGED <<shmName, shmOf>>
    BY <1>2, SemOpenEffect
  <2>2. semOf[r][t] = None /\ o # None
    BY <2>1, NotYetOpen, TrayFacts
  <2>3. semName[t] # r /\ \A x \in Run : semOf[x][t] # r
    BY <2>1, <2>2, NotYetCreated
  <2>4. semOf'[o][t] = o
    <3>1. CASE semName[t] = None
      BY <2>1, <3>1 DEF SemFound
    <3>2. CASE semName[t] # None
      <4>1. o = semName[t] /\ o # r
        BY <2>3, <3>2 DEF SemFound
      <4>2. semOf[o][t] = o
        BY <2>1, <3>2, <4>1 DEF Created
      <4> QED
        BY <2>1, <4>1, <4>2
    <3> QED
      BY <3>1, <3>2
  <2> HIDE DEF t, o
  <2>5. \A u \in Tray : semName'[u] = IF u = t THEN o ELSE semName[u]
    BY <2>1 DEF NamesTypes
  <2>6. \A u \in Tray, x \in Run : semOf[x][u] \in Run \cup {None}
    BY DEF NamesTypes
  <2>7. \A u \in Tray : semName[u] \in Run \cup {None}
    BY DEF NamesTypes
  <2>8. ASSUME NEW u \in Tray, NEW x \in Run, semOf'[x][u] # None
        PROVE  semOf'[semOf'[x][u]][u] = semOf'[x][u]
    <3>1. CASE x = r /\ u = t
      BY <2>1, <2>4, <3>1
    <3>2. CASE ~(x = r /\ u = t)
      <4>1. semOf'[x][u] = semOf[x][u] /\ semOf[x][u] \in Run /\ semOf[semOf[x][u]][u] = semOf[x][u]
        BY <2>1, <2>6, <2>8, <3>2 DEF Created
      <4>2. ~(semOf[x][u] = r /\ u = t)
        BY <2>3
      <4> QED
        BY <2>1, <4>1, <4>2
    <3> QED
      BY <3>1, <3>2
  <2>9. ASSUME NEW u \in Tray, semName'[u] # None PROVE semOf'[semName'[u]][u] = semName'[u]
    <3>1. CASE u = t
      BY <2>4, <2>5, <3>1
    <3>2. CASE u # t
      BY <2>1, <2>5, <2>7, <2>9, <3>2 DEF Created
    <3> QED
      BY <3>1, <3>2
  <2> QED
    BY <2>1, <2>8, <2>9 DEF Created
<1>3. ASSUME NEW r \in Run, ShmOpen(r) PROVE Created'
  <2> DEFINE t == at[main(r)]
             o == ShmFound(r)
  <2>1. /\ pc[main(r)] = "shm_open" /\ t \in Tray /\ o \in Run
        /\ shmName' = [shmName EXCEPT ![t] = o]
        /\ \A x \in Run, u \in Tray : shmOf'[x][u] = IF x = r /\ u = t THEN o ELSE shmOf[x][u]
        /\ UNCHANGED <<semName, semOf>>
    BY <1>3, ShmOpenEffect
  <2>2. shmOf[r][t] = None /\ o # None
    BY <2>1, NotYetOpen, TrayFacts
  <2>3. shmName[t] # r /\ \A x \in Run : shmOf[x][t] # r
    BY <2>1, <2>2, NotYetCreated
  <2>4. shmOf'[o][t] = o
    <3>1. CASE shmName[t] = None
      BY <2>1, <3>1 DEF ShmFound
    <3>2. CASE shmName[t] # None
      <4>1. o = shmName[t] /\ o # r
        BY <2>3, <3>2 DEF ShmFound
      <4>2. shmOf[o][t] = o
        BY <2>1, <3>2, <4>1 DEF Created
      <4> QED
        BY <2>1, <4>1, <4>2
    <3> QED
      BY <3>1, <3>2
  <2> HIDE DEF t, o
  <2>5. \A u \in Tray : shmName'[u] = IF u = t THEN o ELSE shmName[u]
    BY <2>1 DEF NamesTypes
  <2>6. \A u \in Tray, x \in Run : shmOf[x][u] \in Run \cup {None}
    BY DEF NamesTypes
  <2>7. \A u \in Tray : shmName[u] \in Run \cup {None}
    BY DEF NamesTypes
  <2>8. ASSUME NEW u \in Tray, NEW x \in Run, shmOf'[x][u] # None
        PROVE  shmOf'[shmOf'[x][u]][u] = shmOf'[x][u]
    <3>1. CASE x = r /\ u = t
      BY <2>1, <2>4, <3>1
    <3>2. CASE ~(x = r /\ u = t)
      <4>1. shmOf'[x][u] = shmOf[x][u] /\ shmOf[x][u] \in Run /\ shmOf[shmOf[x][u]][u] = shmOf[x][u]
        BY <2>1, <2>6, <2>8, <3>2 DEF Created
      <4>2. ~(shmOf[x][u] = r /\ u = t)
        BY <2>3
      <4> QED
        BY <2>1, <4>1, <4>2
    <3> QED
      BY <3>1, <3>2
  <2>9. ASSUME NEW u \in Tray, shmName'[u] # None PROVE shmOf'[shmName'[u]][u] = shmName'[u]
    <3>1. CASE u = t
      BY <2>4, <2>5, <3>1
    <3>2. CASE u # t
      BY <2>1, <2>5, <2>7, <2>9, <3>2 DEF Created
    <3> QED
      BY <3>1, <3>2
  <2> QED
    BY <2>1, <2>8, <2>9 DEF Created
<1>4. ASSUME NEW p \in Proc, ShmUnlink(p) \/ SemUnlink(p) \/ Sigkill(p) PROVE Created'
  <2>1. /\ UNCHANGED <<semOf, shmOf>>
        /\ shmName' = shmName \/ shmName' = [shmName EXCEPT ![at[p]] = None]
        /\ semName' = semName \/ semName' = [semName EXCEPT ![at[p]] = None]
    BY <1>4, CleanupEffect
  <2>2. /\ \A t \in Tray : semName'[t] = semName[t] \/ semName'[t] = None
        /\ \A t \in Tray : shmName'[t] = shmName[t] \/ shmName'[t] = None
    BY <2>1 DEF NamesTypes
  <2> QED
    BY <1>1, <2>1, <2>2
<1>5. ASSUME NEW r \in Run,
             Name(r) \/ Start(r) \/ Map(r) \/ Fail(r) \/ Fork(r)
               \/ (\E S \in SUBSET Role : Sigint(r, S))
               \/ (\E c \in Child, t \in Tray : Wait(r, c, t) \/ Post(r, c, t))
      PROVE  UNCHANGED <<semOf, shmOf, semName, shmName>>
  BY <1>5 DEF Name, Start, Map, Fail, Fork, Sigint, Wait, Post
<1>6. UNCHANGED vars => UNCHANGED <<semOf, shmOf, semName, shmName>>
  BY DEF vars
<1> QED
  BY <1>1, <1>2, <1>3, <1>4, <1>5, <1>6 DEF Next

\* NamesInv holds in every state.
LEMMA NamesInvariant == Spec => []NamesInv
<1>1. Init => NamesInv
  <2> SUFFICES ASSUME Init PROVE NamesInv
    OBVIOUS
  <2>1. 0 \in Tray /\ None \notin Run /\ \A t \in Tray : ~(t < 0)
    BY TrayFacts
  <2>2. NamesTypes
    BY <2>1 DEF Init, NamesTypes, MainLabel
  <2>3. Labels
    BY ProcFacts DEF Init, Labels, MainLabel, ChildLabel
  <2>4. ASSUME NEW r \in Run PROVE Progress(r)
    <3>1. /\ pc[main(r)] = "off" /\ at[main(r)] = 0
          /\ \A c \in Child : pc[<<r, c>>] = "off"
          /\ \A t \in Tray : semOf[r][t] = None /\ shmOf[r][t] = None
      BY ProcFacts DEF Init
    <3> QED
      BY <2>1, <3>1 DEF Progress
  <2>5. Created
    BY DEF Init, Created
  <2> QED
    BY <2>2, <2>3, <2>4, <2>5 DEF NamesInv
<1>2. NamesInv /\ [Next]_vars => NamesInv'
  BY TypesStep, LabelsStep, ProgressStep, CreatedStep DEF NamesInv
<1> QED
  BY <1>1, <1>2, PTL DEF Spec

----------------------------------------------------------------------------
(***************************************************************************)
(* What a step does to one process: nothing, or one of these moves.  A     *)
(* quiet start finds nobody in cleanup, a quiet SIGINT nobody in shmInit.  *)
(***************************************************************************)
Runs == Opening \cup {"fork", "loop", "work", "post"}

Moves(p) ==
  \/ pc'[p] = pc[p] /\ at'[p] = at[p]
  \/ pc[p] = "off" /\ pc'[p] = "work"
  \/ pc[p] = "off" /\ pc'[p] = "name" /\ (quiet' => \A q \in Proc : pc'[q] \notin Handling)
  \/ /\ pc[p] \in Runs /\ pc'[p] \in Runs /\ (pc'[p] \in Opening => pc[p] \in Opening)
     /\ pc'[p] = "shm_open" => at'[p] = at[p] /\ semName'[at[p]] = semOf'[p[1]][at[p]]
  \/ /\ pc[p] \in Runs /\ pc'[p] = "shm_unlink" /\ at'[p] = 0
     /\ quiet' => \A r \in Run : pc'[main(r)] \notin Opening
  \/ pc[p] \in Runs \cup Handling /\ pc'[p] \in {"killed", "failed"}
  \/ pc[p] = "shm_unlink" /\ pc'[p] = "sem_unlink" /\ at'[p] = at[p] /\ shmName'[at[p]] = None
  \/ /\ pc[p] = "sem_unlink"
     /\ \/ pc'[p] = "shm_unlink" /\ at'[p] = at[p] + 1
        \/ pc'[p] = "reraised" /\ \A t \in Tray : t <= at[p]
     /\ at[p] \in named[p[1]] => semName'[at[p]] = None

\* A SIGINT of a run in shmInit strikes main, the only process there is.
LEMMA SigintApart ==
  ASSUME NamesInv, NEW r \in Run, NEW S \in SUBSET Role, Sigint(r, S), quiet', NEW x \in Run
  PROVE  pc'[main(x)] \notin Opening
<1>1. /\ S # {} /\ \A c \in S : Living(<<r, c>>)
      /\ \A q \in Run \ {r} : pc[main(q)] \notin Opening
  BY DEF Sigint
<1>2. NamesTypes /\ Progress(r)
  BY DEF NamesInv
<1>3. \A p \in Proc : pc'[p] = "shm_unlink" \/ (pc'[p] = pc[p] /\ ~(p[1] = r /\ p[2] \in S))
  BY <1>2, SigintEffect
<1>4. main(x) \in Proc /\ main(x)[1] = x /\ main(x)[2] = "main"
  BY ProcFacts
<1>5. CASE x # r
  BY <1>1, <1>3, <1>4, <1>5 DEF Opening
<1>6. CASE x = r
  <2>1. CASE "main" \in S
    BY <1>3, <1>4, <1>6, <2>1 DEF Opening
  <2>2. CASE "main" \notin S
    <3>1. PICK c \in S : c \in Child
      BY <1>1, <2>2 DEF Role
    <3>2. pc[<<r, c>>] # "off"
      BY <1>1, <3>1 DEF Living
    <3>3. pc[main(r)] \notin Opening
      BY <1>2, <3>1, <3>2 DEF Progress
    <3> QED
      BY <1>3, <1>4, <1>6, <3>3 DEF Opening
  <2> QED
    BY <2>1, <2>2
<1> QED
  BY <1>5, <1>6

\* Every step moves each process along Moves, the SIGINTs included.
LEMMA MovesOfStep ==
  ASSUME NamesInv, [Next]_vars, NEW p \in Proc
  PROVE  Moves(p) /\ named[p[1]] \subseteq named'[p[1]]
<1> USE DEF kernel, handles
<1>0. NamesTypes
  BY DEF NamesInv
<1>1. ASSUME NEW q \in Proc, NEW l, pc' = [pc EXCEPT ![q] = l]
      PROVE  pc'[q] = l /\ (p # q => pc'[p] = pc[p])
  BY <1>0, <1>1 DEF NamesTypes
<1>2. ASSUME NEW q \in Proc, NEW n, at' = [at EXCEPT ![q] = n]
      PROVE  at'[q] = n /\ (p # q => at'[p] = at[p])
  BY <1>0, <1>2 DEF NamesTypes
<1>3. p[1] \in Run /\ at[p] \in Tray
  BY <1>0, ProcFacts DEF NamesTypes
<1>4. ASSUME NEW r \in Run, Name(r) PROVE Moves(p) /\ named[p[1]] \subseteq named'[p[1]]
  <2>1. /\ UNCHANGED at /\ pc[main(r)] = "name" /\ pc' = [pc EXCEPT ![main(r)] = "sem_open"]
        /\ named' = [named EXCEPT ![r] = @ \cup {at[main(r)]}]
    BY <1>0, <1>4, NameEffect
  <2>2. Moves(p)
    BY <1>1, <2>1, ProcFacts DEF Moves, Runs, Opening
  <2> QED
    BY <1>0, <1>3, <2>1, <2>2 DEF NamesTypes
<1>5. ASSUME NEW r \in Run, SemOpen(r) PROVE Moves(p) /\ UNCHANGED named
  <2>1. /\ pc[main(r)] = "sem_open" /\ at[main(r)] \in Tray /\ SemFound(r) \in Run
        /\ semName' = [semName EXCEPT ![at[main(r)]] = SemFound(r)]
        /\ semOf'[r][at[main(r)]] = SemFound(r)
        /\ pc' = [pc EXCEPT ![main(r)] = "shm_open"] /\ UNCHANGED <<named, at>>
    BY <1>0, <1>5, SemOpenEffect
  <2>2. main(r) \in Proc /\ main(r)[1] = r
    BY ProcFacts
  <2>3. semName'[at[main(r)]] = semOf'[r][at[main(r)]]
    BY <1>0, <2>1 DEF NamesTypes
  <2>4. CASE p = main(r)
    BY <1>1, <2>1, <2>2, <2>3, <2>4 DEF Moves, Runs, Opening
  <2>5. CASE p # main(r)
    BY <1>1, <2>1, <2>2, <2>5 DEF Moves
  <2> QED
    BY <2>1, <2>4, <2>5
<1>6. ASSUME NEW r \in Run, ShmOpen(r) PROVE Moves(p) /\ UNCHANGED named
  <2>1. /\ UNCHANGED <<at, named>> /\ pc[main(r)] = "shm_open"
        /\ pc' = [pc EXCEPT ![main(r)] = "map"]
    BY <1>0, <1>6, ShmOpenEffect
  <2> QED
    BY <1>1, <2>1, ProcFacts DEF Moves, Runs, Opening
<1>7. ASSUME NEW r \in Run, Start(r) PROVE Moves(p) /\ UNCHANGED named
  <2>1. /\ UNCHANGED <<at, named>> /\ pc[main(r)] = "off" /\ pc' = [pc EXCEPT ![main(r)] = "name"]
        /\ quiet' => \A q \in Proc : pc[q] \notin Handling
    BY <1>7 DEF Start, Goto
  <2>2. quiet' => \A q \in Proc : pc'[q] \notin Handling
    BY <1>0, <2>1, ProcFacts DEF NamesTypes, Handling
  <2>3. main(r) \in Proc
    BY ProcFacts
  <2>4. CASE p = main(r)
    BY <1>1, <2>1, <2>2, <2>3, <2>4 DEF Moves
  <2>5. CASE p # main(r)
    BY <1>1, <2>1, <2>3, <2>5 DEF Moves
  <2> QED
    BY <2>1, <2>4, <2>5
<1>8. ASSUME NEW r \in Run, Map(r) \/ Fail(r) PROVE Moves(p) /\ UNCHANGED named
  <2>1. UNCHANGED named
    BY <1>0, <1>8, MainEffect
  <2>2. PICK l, n :
          /\ pc' = [pc EXCEPT ![main(r)] = l] /\ at' = [at EXCEPT ![main(r)] = n]
          /\ \/ pc[main(r)] = "map" /\ l \in {"name", "fork"}
             \/ pc[main(r)] \in Opening \cup {"fork"} /\ l = "failed"
    BY <1>8 DEF Map, Fail, Goto
  <2>3. main(r) \in Proc
    BY ProcFacts
  <2>4. CASE p = main(r)
    <3>1. pc'[p] = l
      BY <1>1, <2>2, <2>3, <2>4
    <3> QED
      BY <2>1, <2>2, <2>4, <3>1 DEF Moves, Runs, Opening
  <2>5. CASE p # main(r)
    BY <1>1, <1>2, <2>1, <2>2, <2>3, <2>5 DEF Moves
  <2> QED
    BY <2>4, <2>5
<1>9. ASSUME NEW r \in Run, Fork(r) PROVE Moves(p) /\ UNCHANGED named
  <2>1. UNCHANGED <<named, at>> /\ pc[main(r)] = "fork"
    BY <1>0, <1>9, ForkEffect
  <2>2. PICK c \in Child, l \in {"loop", "fork"} :
          /\ pc[<<r, c>>] = "off"
          /\ pc'[p] = IF p = main(r) THEN l ELSE IF p = <<r, c>> THEN "work" ELSE pc[p]
    BY <1>0, <1>9, ForkEffect
  <2> QED
    BY <2>1, <2>2 DEF Moves, Runs, Opening
<1>10. ASSUME NEW r \in Run, NEW S \in SUBSET Role, Sigint(r, S) PROVE Moves(p) /\ UNCHANGED named
  <2>1. /\ UNCHANGED named
        /\ \/ pc'[p] = pc[p] /\ at'[p] = at[p]
           \/ Living(p) /\ pc[p] \notin Handling /\ pc'[p] = "shm_unlink" /\ at'[p] = 0
    BY <1>0, <1>10, SigintEffect
  <2>2. pc[p] \in MainLabel \cup ChildLabel
    BY <1>0 DEF NamesTypes
  <2>3. quiet' => \A x \in Run : pc'[main(x)] \notin Opening
    BY <1>10, SigintApart
  <2>4. Living(p) /\ pc[p] \notin Handling => pc[p] \in Runs
    BY <2>2 DEF Runs, Living, MainLabel, ChildLabel, Ended
  <2> QED
    BY <2>1, <2>3, <2>4 DEF Moves
<1>11. ASSUME NEW r \in Run, NEW c \in Child, NEW t \in Tray, Wait(r, c, t) \/ Post(r, c, t)
       PROVE  Moves(p) /\ UNCHANGED named
  <2>1. /\ UNCHANGED <<at, named>> /\ pc[<<r, c>>] \in {"work", "post"}
        /\ \E l \in {"work", "post"} : pc' = [pc EXCEPT ![<<r, c>>] = l]
    BY <1>0, <1>11, ChildEffect
  <2> QED
    BY <1>1, <2>1, ProcFacts DEF Moves, Runs, Opening
<1>12. ASSUME NEW q \in Proc, ShmUnlink(q) \/ SemUnlink(q) \/ Sigkill(q)
       PROVE  Moves(p) /\ UNCHANGED named
  <2>1. UNCHANGED named
    BY <1>0, <1>12, CleanupEffect
  <2>2. PICK l \in Handling \cup {"reraised", "killed"}, n \in Tray :
          /\ pc' = [pc EXCEPT ![q] = l] /\ at' = [at EXCEPT ![q] = n]
          /\ \/ /\ pc[q] = "shm_unlink" /\ l = "sem_unlink" /\ n = at[q]
                /\ shmName' = [shmName EXCEPT ![at[q]] = None]
             \/ /\ pc[q] = "sem_unlink"
                /\ \/ l = "shm_unlink" /\ n = at[q] + 1
                   \/ l = "reraised" /\ \A t \in Tray : t <= at[q]
                /\ semName' = IF at[q] \in named[q[1]] THEN [semName EXCEPT ![at[q]] = None]
                                                       ELSE semName
             \/ Living(q) /\ l = "killed"
    BY <1>0, <1>12, CleanupEffect
  <2>3. CASE p # q
    BY <1>1, <1>2, <2>1, <2>2, <2>3 DEF Moves
  <2>4. CASE p = q
    <3>1. pc'[p] = l /\ at'[p] = n
      BY <1>1, <1>2, <2>2, <2>4
    <3>2. CASE pc[q] = "shm_unlink" /\ l = "sem_unlink" /\ n = at[q]
               /\ shmName' = [shmName EXCEPT ![at[q]] = None]
      <4>1. shmName'[at[p]] = None
        BY <1>0, <1>3, <2>4, <3>2 DEF NamesTypes
      <4> QED
        BY <2>1, <2>4, <3>1, <3>2, <4>1 DEF Moves
    <3>3. CASE /\ pc[q] = "sem_unlink"
               /\ \/ l = "shm_unlink" /\ n = at[q] + 1
                  \/ l = "reraised" /\ \A t \in Tray : t <= at[q]
               /\ semName' = IF at[q] \in named[q[1]] THEN [semName EXCEPT ![at[q]] = None]
                                                      ELSE semName
      <4>1. at[p] \in named[p[1]] => semName'[at[p]] = None
        BY <1>0, <1>3, <2>4, <3>3 DEF NamesTypes
      <4> QED
        BY <2>1, <2>4, <3>1, <3>3, <4>1 DEF Moves
    <3>4. CASE Living(q) /\ l = "killed"
      <4>1. pc[p] \in MainLabel \cup ChildLabel
        BY <1>0 DEF NamesTypes
      <4>2. pc[p] \in Runs \cup Handling
        BY <2>4, <3>4, <4>1 DEF Runs, Living, MainLabel, ChildLabel, Ended
      <4> QED
        BY <2>1, <3>1, <3>4, <4>2 DEF Moves
    <3> QED
      BY <2>2, <3>2, <3>3, <3>4
  <2> QED
    BY <2>3, <2>4
<1>13. CASE UNCHANGED vars
  BY <1>13 DEF vars, Moves
<1> QED
  BY <1>4, <1>5, <1>6, <1>7, <1>8, <1>9, <1>10, <1>11, <1>12, <1>13 DEF Next

\* Who will unlink a name still will, as long as the name is there.
LEMMA OwnerStays ==
  ASSUME NEW p \in Proc, NEW t \in Tray, at[p] \in Tray,
         Moves(p), named[p[1]] \subseteq named'[p[1]]
  PROVE  /\ WillUnlinkSem(p, t) /\ semName'[t] # None => WillUnlinkSem(p, t)'
         /\ WillUnlinkShm(p, t) /\ shmName'[t] # None => WillUnlinkShm(p, t)'
<1>1. at[p] \in Nat /\ t \in Nat /\ 0 <= t
  BY TrayFacts
<1>2. CASE \/ pc'[p] = pc[p] /\ at'[p] = at[p]
           \/ pc[p] = "off"
           \/ pc[p] \in Runs /\ pc'[p] \in Runs
           \/ pc[p] \in Runs \cup Handling /\ pc'[p] \in {"killed", "failed"}
  BY <1>2 DEF WillUnlinkSem, WillUnlinkShm, Living, Ended, Runs, Handling, Opening
<1>3. CASE pc[p] \in Runs /\ pc'[p] = "shm_unlink" /\ at'[p] = 0
  BY <1>1, <1>3 DEF WillUnlinkSem, WillUnlinkShm, Living, Ended, Runs, Handling, Opening
<1>4. CASE pc[p] = "shm_unlink" /\ pc'[p] = "sem_unlink" /\ at'[p] = at[p] /\ shmName'[at[p]] = None
  <2>1. at[p] <= t /\ shmName'[t] # None => at[p] < t
    BY <1>1, <1>4
  <2> QED
    BY <1>4, <2>1 DEF WillUnlinkSem, WillUnlinkShm, Living, Ended, Handling
<1>5. CASE /\ pc[p] = "sem_unlink"
           /\ \/ pc'[p] = "shm_unlink" /\ at'[p] = at[p] + 1
              \/ pc'[p] = "reraised" /\ \A u \in Tray : u <= at[p]
           /\ at[p] \in named[p[1]] => semName'[at[p]] = None
  <2>1. ASSUME at[p] < t
        PROVE  pc'[p] = "shm_unlink" /\ at'[p] <= t
    <3>1. at[p] + 1 <= t /\ ~(t <= at[p])
      BY <1>1, <2>1
    <3> QED
      BY <1>5, <3>1
  <2>2. WillUnlinkSem(p, t) /\ semName'[t] # None => at[p] < t /\ t \in named[p[1]]
    <3>1. at[p] <= t /\ at[p] # t => at[p] < t
      BY <1>1
    <3> QED
      BY <1>5, <3>1 DEF WillUnlinkSem, Living, Ended, Handling
  <2>3. WillUnlinkShm(p, t) => at[p] < t
    BY <1>5 DEF WillUnlinkShm, Living, Ended, Handling
  <2> QED
    BY <2>1, <2>2, <2>3 DEF WillUnlinkSem, WillUnlinkShm, Living, Ended, Handling
<1> QED
  BY <1>2, <1>3, <1>4, <1>5 DEF Moves

(***************************************************************************)
(* 10-Semaphore: once all processes ended in their SIGINT handlers no name *)
(* is left, wherever the signals struck.  Whoever creates a name will come *)
(* to unlink it, for semaphores because shmInit fills in the name before   *)
(* it opens one.                                                           *)
(***************************************************************************)
THEOREM InterruptsLeaveNoName == Spec => []InterruptLeavesNoName
<1>1. Init => Owned
  BY DEF Init, Owned
<1>2. NamesInv /\ Owned /\ [Next]_vars => Owned'
  <2> SUFFICES ASSUME NamesInv, Owned, [Next]_vars, NEW t \in Tray
               PROVE  /\ semName'[t] # None => \E p \in Proc : WillUnlinkSem(p, t)'
                      /\ shmName'[t] # None => \E p \in Proc : WillUnlinkShm(p, t)'
    BY DEF Owned
  <2>1. NamesTypes /\ \A r \in Run : Progress(r)
    BY DEF NamesInv
  <2>2. \A p \in Proc : Moves(p) /\ named[p[1]] \subseteq named'[p[1]] /\ at[p] \in Tray
    BY <2>1, MovesOfStep DEF NamesTypes
  <2>3. ASSUME semName'[t] # None, semName[t] # None PROVE \E p \in Proc : WillUnlinkSem(p, t)'
    <3>1. PICK p \in Proc : WillUnlinkSem(p, t)
      BY <2>3 DEF Owned
    <3> QED
      BY <2>2, <2>3, <3>1, OwnerStays
  <2>4. ASSUME shmName'[t] # None, shmName[t] # None PROVE \E p \in Proc : WillUnlinkShm(p, t)'
    <3>1. PICK p \in Proc : WillUnlinkShm(p, t)
      BY <2>4 DEF Owned
    <3> QED
      BY <2>2, <2>4, <3>1, OwnerStays
  <2>5. ASSUME NEW r \in Run, SemOpen(r), semName'[t] # None PROVE \E p \in Proc : WillUnlinkSem(p, t)'
    <3>1. /\ pc[main(r)] = "sem_open" /\ pc' = [pc EXCEPT ![main(r)] = "shm_open"]
          /\ semName' = [semName EXCEPT ![at[main(r)]] = SemFound(r)] /\ UNCHANGED named
      BY <2>1, <2>5, SemOpenEffect
    <3>2. CASE t = at[main(r)]
      <4>1. t \in named[r]
        BY <2>1, <3>1, <3>2 DEF Progress
      <4>2. pc'[main(r)] = "shm_open" /\ main(r) \in Proc /\ main(r)[1] = r
        BY <2>1, <3>1, ProcFacts DEF NamesTypes
      <4>3. WillUnlinkSem(main(r), t)'
        BY <3>1, <4>1, <4>2 DEF WillUnlinkSem, Living, Ended, Handling
      <4> QED
        BY <4>2, <4>3
    <3>3. CASE t # at[main(r)]
      <4>1. semName'[t] = semName[t]
        BY <2>1, <3>1, <3>3 DEF NamesTypes
      <4> QED
        BY <2>3, <2>5, <4>1
    <3> QED
      BY <3>2, <3>3
  <2>6. ASSUME NEW r \in Run, ShmOpen(r), shmName'[t] # None PROVE \E p \in Proc : WillUnlinkShm(p, t)'
    <3>1. /\ pc' = [pc EXCEPT ![main(r)] = "map"]
          /\ shmName' = [shmName EXCEPT ![at[main(r)]] = ShmFound(r)]
      BY <2>1, <2>6, ShmOpenEffect
    <3>2. pc'[main(r)] = "map" /\ main(r) \in Proc
      BY <2>1, <3>1, ProcFacts DEF NamesTypes
    <3>3. WillUnlinkShm(main(r), t)'
      BY <3>2 DEF WillUnlinkShm, Living, Ended, Handling
    <3> QED
      BY <3>2, <3>3
  <2>7. \/ \E r \in Run : SemOpen(r) /\ UNCHANGED shmName
        \/ \E r \in Run : ShmOpen(r) /\ UNCHANGED semName
        \/ /\ semName'[t] = semName[t] \/ semName'[t] = None
           /\ shmName'[t] = shmName[t] \/ shmName'[t] = None
    <3> USE DEF kernel, handles
    <3>1. ASSUME NEW r \in Run,
                 Name(r) \/ Start(r) \/ Map(r) \/ Fail(r) \/ Fork(r)
                   \/ (\E S \in SUBSET Role : Sigint(r, S))
                   \/ (\E c \in Child, u \in Tray : Wait(r, c, u) \/ Post(r, c, u))
          PROVE  UNCHANGED <<semName, shmName>>
      BY <3>1 DEF Name, Start, Map, Fail, Fork, Sigint, Wait, Post
    <3>2. ASSUME NEW p \in Proc, ShmUnlink(p) \/ SemUnlink(p) \/ Sigkill(p)
          PROVE  /\ semName'[t] = semName[t] \/ semName'[t] = None
                 /\ shmName'[t] = shmName[t] \/ shmName'[t] = None
      <4>1. /\ shmName' = shmName \/ shmName' = [shmName EXCEPT ![at[p]] = None]
            /\ semName' = semName \/ semName' = [semName EXCEPT ![at[p]] = None]
        BY <2>1, <3>2, CleanupEffect
      <4> QED
        BY <2>1, <4>1 DEF NamesTypes
    <3>3. ASSUME NEW r \in Run, SemOpen(r) PROVE UNCHANGED shmName
      BY <3>3 DEF SemOpen
    <3>4. ASSUME NEW r \in Run, ShmOpen(r) PROVE UNCHANGED semName
      BY <3>4 DEF ShmOpen
    <3>5. UNCHANGED vars => UNCHANGED <<semName, shmName>>
      BY DEF vars
    <3> QED
      BY <3>1, <3>2, <3>3, <3>4, <3>5 DEF Next
  <2> QED
    BY <2>3, <2>4, <2>5, <2>6, <2>7
<1>3. Owned => InterruptLeavesNoName
  BY DEF Owned, InterruptLeavesNoName, WillUnlinkSem, WillUnlinkShm, Living, Ended
<1> QED
  BY <1>1, <1>2, <1>3, NamesInvariant, PTL DEF Spec

----------------------------------------------------------------------------
\* What sem_open, sem_wait and sem_post do to the semaphores' values.
LEMMA SemOpenValues ==
  ASSUME NamesTypes, semVal \in [Tray -> [Run -> Nat]], NEW r \in Run, SemOpen(r)
  PROVE  /\ semVal' \in [Tray -> [Run -> Nat]]
         /\ \A u \in Tray, o \in Run :
              semVal'[u][o] = IF u = at[main(r)] /\ o = r /\ semName[u] = None
                              THEN 1 ELSE semVal[u][o]
<1>1. at[main(r)] \in Tray
  BY ProcFacts DEF NamesTypes
<1>2. semVal' = IF semName[at[main(r)]] # None THEN semVal
                ELSE [semVal EXCEPT ![at[main(r)]][r] = 1]
  BY DEF SemOpen
<1> QED
  BY <1>1, <1>2

\* sem_wait and sem_post of a child change only the semaphore its run opened.
LEMMA ChildValues ==
  ASSUME semVal \in [Tray -> [Run -> Nat]], NEW t \in Tray, NEW o \in Run, NEW n \in Nat,
         semVal' = [semVal EXCEPT ![t][o] = n]
  PROVE  /\ semVal' \in [Tray -> [Run -> Nat]]
         /\ \A u \in Tray, s \in Run :
              semVal'[u][s] = IF u = t /\ s = o THEN n ELSE semVal[u][s]
  OBVIOUS

\* A step keeps Values: a semaphore stays at 0 from sem_wait to its holder's sem_post.
LEMMA ValuesStep ==
  ASSUME NamesInv, Values, [Next]_vars
  PROVE  Values'
<1> USE DEF kernel, handles
<1>1. NamesTypes /\ Labels /\ Created /\ \A r \in Run : Progress(r)
  BY DEF NamesInv
<1>2. semVal \in [Tray -> [Run -> Nat]]
  BY DEF Values
<1>3. ASSUME UNCHANGED <<semVal, holds, semOf>> PROVE Values'
  BY <1>3 DEF Values
<1>4. \A p \in Proc : p[1] \in Run /\ holds[p] \in SUBSET Tray
  BY <1>1, ProcFacts DEF NamesTypes
<1>5. \A x \in Run, u \in Tray : semOf[x][u] \in Run \cup {None}
  BY <1>1 DEF NamesTypes
<1>6. ASSUME NEW r \in Run, SemOpen(r) PROVE Values'
  <2> DEFINE t == at[main(r)]
  <2>1. /\ pc[main(r)] = "sem_open" /\ t \in Tray /\ UNCHANGED holds
        /\ \A x \in Run, u \in Tray :
             semOf'[x][u] = IF x = r /\ u = t THEN SemFound(r) ELSE semOf[x][u]
    BY <1>1, <1>6, SemOpenEffect
  <2>2. semOf[r][t] = None /\ \A x \in Run : semOf[x][t] # r
    BY <1>1, <2>1, NotYetOpen, NotYetCreated
  <2>3. /\ semVal' \in [Tray -> [Run -> Nat]]
        /\ \A u \in Tray, o \in Run :
             semVal'[u][o] = IF u = t /\ o = r /\ semName[u] = None THEN 1 ELSE semVal[u][o]
    BY <1>1, <1>2, <1>6, SemOpenValues
  <2> HIDE DEF t
  <2>4. \A p \in Proc : \A u \in holds[p] :
          semOf'[p[1]][u] = semOf[p[1]][u] /\ semOf[p[1]][u] \in Run /\ ~(u = t /\ semOf[p[1]][u] = r)
    <3> SUFFICES ASSUME NEW p \in Proc, NEW u \in holds[p]
                 PROVE  semOf'[p[1]][u] = semOf[p[1]][u] /\ semOf[p[1]][u] \in Run
                          /\ ~(u = t /\ semOf[p[1]][u] = r)
      OBVIOUS
    <3>1. semOf[p[1]][u] # None /\ u \in Tray /\ p[1] \in Run
      BY <1>4 DEF Values
    <3> QED
      BY <1>5, <2>1, <2>2, <3>1
  <2>5. \A u \in Tray, o \in Run : semVal'[u][o] <= 1
    BY <2>3 DEF Values
  <2>6. \A p \in Proc : \A u \in holds[p] :
          semOf'[p[1]][u] # None /\ semVal'[u][semOf'[p[1]][u]] = 0
    BY <1>4, <2>3, <2>4 DEF Values
  <2>7. \A p, q \in Proc : \A u \in holds[p] \cap holds[q] :
          p # q => semOf'[p[1]][u] # semOf'[q[1]][u]
    BY <2>4 DEF Values
  <2> QED
    BY <2>1, <2>3, <2>5, <2>6, <2>7 DEF Values
<1>7. ASSUME NEW r \in Run, NEW c \in Child, NEW t \in Tray, Wait(r, c, t) \/ Post(r, c, t)
      PROVE  Values'
  <2> DEFINE o == semOf[r][t]
             me == <<r, c>>
  <2>1. UNCHANGED semOf /\ pc[me] \in {"work", "post"}
    BY <1>1, <1>7, ChildEffect
  <2>2. me \in Proc /\ me[1] = r
    BY ProcFacts
  <2>3. o \in Run
    BY <1>1, <1>5, <2>1 DEF Progress
  <2>4. semVal[t][o] \in Nat /\ semVal[t][o] <= 1
    BY <1>2, <2>3 DEF Values
  <2>5. CASE Wait(r, c, t)
    <3>1. /\ semVal[t][o] > 0 /\ semVal' = [semVal EXCEPT ![t][o] = @ - 1]
          /\ holds' = [holds EXCEPT ![me] = @ \cup {t}]
      BY <2>5 DEF Wait
    <3>2. semVal[t][o] - 1 = 0
      BY <2>4, <3>1
    <3>3. semVal' = [semVal EXCEPT ![t][o] = 0]
      BY <3>1, <3>2
    <3>4. /\ semVal' \in [Tray -> [Run -> Nat]]
          /\ \A u \in Tray, s \in Run :
               semVal'[u][s] = IF u = t /\ s = o THEN 0 ELSE semVal[u][s]
      BY <1>2, <2>3, <3>3, ChildValues
    <3>5. /\ \A p \in Proc : p # me => holds'[p] = holds[p]
          /\ holds'[me] = holds[me] \cup {t}
      BY <1>1, <2>2, <3>1 DEF NamesTypes
    <3> HIDE DEF o, me
    <3>6. \A p \in Proc : t \in holds[p] => semOf[p[1]][t] # o
      <4>1. semVal[t][o] # 0
        BY <2>4, <3>1
      <4> QED
        BY <4>1 DEF Values
    <3>7. semOf[r][t] = o /\ o # None
      BY <2>3, TrayFacts DEF o
    <3>8. \A u \in Tray, s \in Run : semVal'[u][s] <= 1
      BY <3>4 DEF Values
    <3>9. ASSUME NEW p \in Proc, NEW u \in holds'[p]
          PROVE  semOf[p[1]][u] # None /\ semVal'[u][semOf[p[1]][u]] = 0
      <4>1. CASE p = me /\ u = t
        BY <2>2, <2>3, <3>4, <3>7, <4>1
      <4>2. CASE ~(p = me /\ u = t)
        <5>1. u \in holds[p] /\ u \in Tray /\ p[1] \in Run
          BY <1>4, <3>5, <3>9, <4>2
        <5>2. semOf[p[1]][u] # None /\ semVal[u][semOf[p[1]][u]] = 0 /\ semOf[p[1]][u] \in Run
          BY <1>5, <5>1 DEF Values
        <5> QED
          BY <3>4, <5>1, <5>2
      <4> QED
        BY <4>1, <4>2
    <3>10. ASSUME NEW p \in Proc, NEW q \in Proc, NEW u \in holds'[p] \cap holds'[q], p # q
           PROVE  semOf[p[1]][u] # semOf[q[1]][u]
      <4>1. CASE u = t /\ p = me
        BY <2>2, <3>5, <3>6, <3>7, <3>10, <4>1
      <4>2. CASE u = t /\ q = me
        BY <2>2, <3>5, <3>6, <3>7, <3>10, <4>2
      <4>3. CASE ~(u = t /\ p = me) /\ ~(u = t /\ q = me)
        <5>1. u \in holds[p] \cap holds[q]
          BY <3>5, <3>10, <4>3
        <5> QED
          BY <3>10, <5>1 DEF Values
      <4> QED
        BY <4>1, <4>2, <4>3
    <3> QED
      BY <2>1, <3>4, <3>8, <3>9, <3>10 DEF Values
  <2>6. CASE Post(r, c, t)
    <3>1. /\ t \in holds[me] /\ semVal' = [semVal EXCEPT ![t][o] = @ + 1]
          /\ holds' = [holds EXCEPT ![me] = @ \ {t}]
      BY <2>6 DEF Post
    <3>2. semVal[t][o] = 0
      BY <2>2, <3>1 DEF Values
    <3>3. semVal' = [semVal EXCEPT ![t][o] = 1]
      BY <3>1, <3>2
    <3>4. /\ semVal' \in [Tray -> [Run -> Nat]]
          /\ \A u \in Tray, s \in Run :
               semVal'[u][s] = IF u = t /\ s = o THEN 1 ELSE semVal[u][s]
      BY <1>2, <2>3, <3>3, ChildValues
    <3>5. /\ \A p \in Proc : p # me => holds'[p] = holds[p]
          /\ holds'[me] = holds[me] \ {t}
      BY <1>1, <2>2, <3>1 DEF NamesTypes
    <3>6. \A p \in Proc : p # me /\ t \in holds[p] => semOf[p[1]][t] # o
      BY <2>2, <3>1 DEF Values
    <3> HIDE DEF o, me
    <3>7. \A u \in Tray, s \in Run : semVal'[u][s] <= 1
      BY <3>4 DEF Values
    <3>8. \A p \in Proc : holds'[p] \subseteq holds[p]
      BY <3>5
    <3>9. ASSUME NEW p \in Proc, NEW u \in holds'[p]
          PROVE  semOf[p[1]][u] # None /\ semVal'[u][semOf[p[1]][u]] = 0
      <4>1. u \in holds[p] /\ u \in Tray /\ p[1] \in Run /\ ~(p = me /\ u = t)
        BY <1>4, <3>5, <3>9
      <4>2. semOf[p[1]][u] # None /\ semVal[u][semOf[p[1]][u]] = 0 /\ semOf[p[1]][u] \in Run
        BY <1>5, <4>1 DEF Values
      <4>3. ~(u = t /\ semOf[p[1]][u] = o)
        BY <3>6, <4>1
      <4> QED
        BY <3>4, <4>1, <4>2, <4>3
    <3>10. ASSUME NEW p \in Proc, NEW q \in Proc, NEW u \in holds'[p] \cap holds'[q], p # q
           PROVE  semOf[p[1]][u] # semOf[q[1]][u]
      BY <3>8, <3>10 DEF Values
    <3> QED
      BY <2>1, <3>4, <3>7, <3>9, <3>10 DEF Values
  <2> QED
    BY <1>7, <2>5, <2>6
<1>8. ASSUME NEW r \in Run,
             Name(r) \/ ShmOpen(r) \/ Start(r) \/ Map(r) \/ Fail(r) \/ Fork(r)
               \/ (\E S \in SUBSET Role : Sigint(r, S))
      PROVE  UNCHANGED <<semVal, holds, semOf>>
  BY <1>8 DEF Name, ShmOpen, Start, Map, Fail, Fork, Sigint
<1>9. ASSUME NEW p \in Proc, ShmUnlink(p) \/ SemUnlink(p) \/ Sigkill(p)
      PROVE  UNCHANGED <<semVal, holds, semOf>>
  BY <1>9 DEF ShmUnlink, SemUnlink, Sigkill
<1>10. UNCHANGED vars => UNCHANGED <<semVal, holds, semOf>>
  BY DEF vars
<1> QED
  BY <1>3, <1>6, <1>7, <1>8, <1>9, <1>10 DEF Next

\* A holder's handle stays what it is, and its run's semaphore is not created anew.
LEMMA HolderKeepsHandle ==
  ASSUME NamesInv, Values, [Next]_vars, NEW p \in Proc, NEW t \in holds[p]
  PROVE  /\ semOf'[p[1]][t] = semOf[p[1]][t] /\ semOf[p[1]][t] \in Run
         /\ semName'[t] # semName[t] => semName'[t] # semOf[p[1]][t]
<1> USE DEF kernel, handles
<1>1. NamesTypes /\ Created /\ \A r \in Run : Progress(r)
  BY DEF NamesInv
<1>2. p[1] \in Run /\ t \in Tray /\ semOf[p[1]][t] # None /\ semOf[p[1]][t] \in Run
  BY <1>1, ProcFacts DEF NamesTypes, Values
<1>3. ASSUME UNCHANGED semOf, semName'[t] = semName[t] \/ semName'[t] = None
      PROVE  /\ semOf'[p[1]][t] = semOf[p[1]][t]
             /\ semName'[t] # semName[t] => semName'[t] # semOf[p[1]][t]
  BY <1>2, <1>3
<1>4. ASSUME NEW r \in Run, SemOpen(r)
      PROVE  /\ semOf'[p[1]][t] = semOf[p[1]][t]
             /\ semName'[t] # semName[t] => semName'[t] # semOf[p[1]][t]
  <2>1. /\ pc[main(r)] = "sem_open" /\ at[main(r)] \in Tray
        /\ semName' = [semName EXCEPT ![at[main(r)]] = SemFound(r)]
        /\ \A x \in Run, u \in Tray :
             semOf'[x][u] = IF x = r /\ u = at[main(r)] THEN SemFound(r) ELSE semOf[x][u]
    BY <1>1, <1>4, SemOpenEffect
  <2>2. semOf[r][at[main(r)]] = None
    BY <1>1, <2>1, NotYetOpen
  <2>3. \A x \in Run : semOf[x][at[main(r)]] # r
    BY <1>1, <2>1, <2>2, NotYetCreated
  <2>4. semOf'[p[1]][t] = semOf[p[1]][t]
    BY <1>2, <2>1, <2>2
  <2>5. semName'[t] # semName[t] => t = at[main(r)] /\ semName'[t] = r
    BY <1>1, <1>2, <2>1 DEF NamesTypes, SemFound
  <2> QED
    BY <1>2, <2>3, <2>4, <2>5
<1>5. ASSUME NEW r \in Run,
             Name(r) \/ ShmOpen(r) \/ Start(r) \/ Map(r) \/ Fail(r) \/ Fork(r)
               \/ (\E S \in SUBSET Role : Sigint(r, S))
               \/ (\E c \in Child, u \in Tray : Wait(r, c, u) \/ Post(r, c, u))
      PROVE  UNCHANGED <<semOf, semName>>
  BY <1>5 DEF Name, ShmOpen, Start, Map, Fail, Fork, Sigint, Wait, Post
<1>6. ASSUME NEW q \in Proc, ShmUnlink(q) \/ SemUnlink(q) \/ Sigkill(q)
      PROVE  UNCHANGED semOf /\ (semName'[t] = semName[t] \/ semName'[t] = None)
  <2>1. UNCHANGED semOf /\ (semName' = semName \/ semName' = [semName EXCEPT ![at[q]] = None])
    BY <1>6 DEF ShmUnlink, SemUnlink, Sigkill
  <2> QED
    BY <1>1, <1>2, <2>1 DEF NamesTypes
<1>7. UNCHANGED vars => UNCHANGED <<semOf, semName>>
  BY DEF vars
<1> QED
  BY <1>2, <1>3, <1>4, <1>5, <1>6, <1>7 DEF Next

\* A step keeps a holder for every linked semaphore at 0.
LEMMA HeldStep ==
  ASSUME NamesInv, Values, Usable, [Next]_vars, NEW u \in Tray,
         semName'[u] # None, semVal'[u][semName'[u]] = 0
  PROVE  \E p \in Proc : u \in holds'[p] /\ semOf'[p[1]][u] = semName'[u]
<1> USE DEF kernel, handles
<1>1. NamesTypes /\ \A r \in Run : Progress(r)
  BY DEF NamesInv
<1>2. semVal \in [Tray -> [Run -> Nat]] /\ semName[u] \in Run \cup {None}
  BY <1>1 DEF Values, NamesTypes
<1>3. ASSUME semName'[u] = semName[u], semVal'[u][semName[u]] = semVal[u][semName[u]],
             \A p \in Proc : u \in holds[p] /\ semOf[p[1]][u] = semName[u] => u \in holds'[p]
      PROVE  \E p \in Proc : u \in holds'[p] /\ semOf'[p[1]][u] = semName'[u]
  <2>1. PICK p \in Proc : u \in holds[p] /\ semOf[p[1]][u] = semName[u]
    BY <1>3 DEF Usable
  <2>2. semOf'[p[1]][u] = semOf[p[1]][u]
    BY <2>1, HolderKeepsHandle
  <2> QED
    BY <1>3, <2>1, <2>2
<1>4. ASSUME NEW r \in Run, SemOpen(r) PROVE ~(semName[u] = None) /\ semName'[u] = semName[u]
                                              /\ UNCHANGED holds /\ semVal'[u] = semVal[u]
  <2>1. /\ at[main(r)] \in Tray /\ semName' = [semName EXCEPT ![at[main(r)]] = SemFound(r)]
        /\ UNCHANGED holds
    BY <1>1, <1>4, SemOpenEffect
  <2>2. \A v \in Tray, o \in Run :
          semVal'[v][o] = IF v = at[main(r)] /\ o = r /\ semName[v] = None THEN 1 ELSE semVal[v][o]
    BY <1>1, <1>2, <1>4, SemOpenValues
  <2>3. semName[u] # None
    <3>1. CASE u = at[main(r)] /\ semName[u] = None
      <4>1. semName'[u] = r
        BY <1>1, <2>1, <3>1 DEF NamesTypes, SemFound
      <4>2. semVal'[u][r] = 1
        BY <2>2, <3>1
      <4> QED
        BY <4>1, <4>2
    <3>2. CASE u # at[main(r)]
      <4>1. semName'[u] = semName[u]
        BY <1>1, <2>1, <3>2 DEF NamesTypes
      <4> QED
        BY <4>1
    <3> QED
      BY <3>1, <3>2
  <2>4. semName'[u] = semName[u]
    BY <1>1, <2>1, <2>3 DEF NamesTypes, SemFound
  <2>5. semVal'[u] = semVal[u]
    <3>1. semVal' = IF semName[at[main(r)]] # None THEN semVal
                    ELSE [semVal EXCEPT ![at[main(r)]][r] = 1]
      BY <1>4 DEF SemOpen
    <3>2. u # at[main(r)] \/ semName[at[main(r)]] # None
      BY <2>3
    <3> QED
      BY <1>2, <2>1, <3>1, <3>2
  <2> QED
    BY <2>1, <2>3, <2>4, <2>5
<1>5. ASSUME NEW r \in Run, NEW c \in Child, NEW t \in Tray, Wait(r, c, t) \/ Post(r, c, t)
      PROVE  \E p \in Proc : u \in holds'[p] /\ semOf'[p[1]][u] = semName'[u]
  <2> DEFINE o == semOf[r][t]
             me == <<r, c>>
  <2>1. UNCHANGED <<semOf, semName>> /\ pc[me] \in {"work", "post"}
    BY <1>1, <1>5, ChildEffect
  <2>2. me \in Proc /\ me[1] = r
    BY ProcFacts
  <2>3. o \in Run
    <3>1. o # None
      BY <1>1, <2>1 DEF Progress
    <3>2. o \in Run \cup {None}
      BY <1>1 DEF NamesTypes
    <3> QED
      BY <3>1, <3>2
  <2>4. semVal[t][o] \in Nat /\ semName[u] \in Run
    BY <1>2, <2>1, <2>3
  <2>5. CASE Wait(r, c, t)
    <3>1. /\ semVal[t][o] > 0 /\ semVal' = [semVal EXCEPT ![t][o] = @ - 1]
          /\ holds' = [holds EXCEPT ![me] = @ \cup {t}]
      BY <2>5 DEF Wait
    <3>2. \A p \in Proc : holds[p] \subseteq holds'[p]
      BY <1>1, <2>2, <3>1 DEF NamesTypes
    <3>3. CASE u = t /\ semName[u] = o
      <4>1. u \in holds'[me]
        BY <1>1, <2>2, <3>1, <3>3 DEF NamesTypes
      <4> QED
        BY <2>1, <2>2, <3>3, <4>1
    <3>4. CASE ~(u = t /\ semName[u] = o)
      <4>1. semVal'[u][semName[u]] = semVal[u][semName[u]]
        BY <1>2, <2>3, <2>4, <3>1, <3>4
      <4> QED
        BY <1>3, <2>1, <3>2, <4>1
    <3> QED
      BY <3>3, <3>4
  <2>6. CASE Post(r, c, t)
    <3>1. /\ semVal' = [semVal EXCEPT ![t][o] = semVal[t][o] + 1]
          /\ holds' = [holds EXCEPT ![me] = @ \ {t}]
      BY <2>6 DEF Post
    <3>2. semVal[t][o] + 1 \in Nat /\ semVal[t][o] + 1 # 0
      BY <2>4
    <3>3. \A v \in Tray, s \in Run :
            semVal'[v][s] = IF v = t /\ s = o THEN semVal[t][o] + 1 ELSE semVal[v][s]
      BY <1>2, <2>3, <3>1, <3>2, ChildValues
    <3>4. ~(u = t /\ semName[u] = o)
      BY <2>1, <2>3, <3>2, <3>3
    <3>5. semVal'[u][semName[u]] = semVal[u][semName[u]]
      BY <2>4, <3>3, <3>4
    <3>6. \A p \in Proc : u \in holds[p] /\ semOf[p[1]][u] = semName[u] => u \in holds'[p]
      BY <1>1, <2>2, <3>1, <3>4 DEF NamesTypes
    <3> QED
      BY <1>3, <2>1, <3>5, <3>6
  <2> QED
    BY <1>5, <2>5, <2>6
<1>6. ASSUME NEW r \in Run,
             Name(r) \/ ShmOpen(r) \/ Start(r) \/ Map(r) \/ Fail(r) \/ Fork(r)
               \/ (\E S \in SUBSET Role : Sigint(r, S))
      PROVE  UNCHANGED <<semName, semVal, holds>>
  BY <1>6 DEF Name, ShmOpen, Start, Map, Fail, Fork, Sigint
<1>7. ASSUME NEW p \in Proc, ShmUnlink(p) \/ SemUnlink(p) \/ Sigkill(p)
      PROVE  UNCHANGED <<semVal, holds>> /\ semName'[u] = semName[u]
  <2>1. /\ UNCHANGED <<semVal, holds>>
        /\ semName' = semName \/ semName' = [semName EXCEPT ![at[p]] = None]
    BY <1>7 DEF ShmUnlink, SemUnlink, Sigkill
  <2> QED
    BY <1>1, <2>1 DEF NamesTypes
<1>8. UNCHANGED vars => UNCHANGED <<semName, semVal, holds>>
  BY DEF vars
<1> QED
  BY <1>3, <1>4, <1>5, <1>6, <1>7, <1>8 DEF Next

\* A step keeps Usable.
LEMMA UsableStep ==
  ASSUME NamesInv, Values, Usable, [Next]_vars
  PROVE  Usable'
<1> USE DEF kernel, handles
<1>1. NamesTypes /\ \A r \in Run : Progress(r)
  BY DEF NamesInv
<1>2. ASSUME NEW p \in Proc, NEW t \in holds'[p]
      PROVE  t \in holds[p] \/ (pc'[p] \in {"work", "post"})
  <2>1. ASSUME NEW r \in Run, NEW c \in Child, NEW u \in Tray, Wait(r, c, u) \/ Post(r, c, u)
        PROVE  t \in holds[p] \/ (pc'[p] \in {"work", "post"})
    <3>1. <<r, c>> \in Proc /\ \E l \in {"work", "post"} : pc' = [pc EXCEPT ![<<r, c>>] = l]
      BY <1>1, <2>1, ChildEffect, ProcFacts
    <3>2. \/ holds' = [holds EXCEPT ![<<r, c>>] = @ \cup {u}]
          \/ holds' = [holds EXCEPT ![<<r, c>>] = @ \ {u}]
      BY <1>1, <2>1, ChildEffect
    <3> QED
      BY <1>1, <1>2, <3>1, <3>2 DEF NamesTypes
  <2>2. ASSUME NEW r \in Run,
               Name(r) \/ SemOpen(r) \/ ShmOpen(r) \/ Start(r) \/ Map(r) \/ Fail(r) \/ Fork(r)
                 \/ (\E S \in SUBSET Role : Sigint(r, S))
        PROVE  UNCHANGED holds
    BY <2>2 DEF Name, SemOpen, ShmOpen, Start, Map, Fail, Fork, Sigint
  <2>3. ASSUME NEW q \in Proc, ShmUnlink(q) \/ SemUnlink(q) \/ Sigkill(q)
        PROVE  UNCHANGED holds
    BY <2>3 DEF ShmUnlink, SemUnlink, Sigkill
  <2>4. UNCHANGED vars => UNCHANGED holds
    BY DEF vars
  <2> QED
    BY <1>2, <2>1, <2>2, <2>3, <2>4 DEF Next
<1>3. ASSUME NEW p \in Proc, NEW t \in holds[p]
      PROVE  pc'[p] # "off" /\ (Past(p, t)' => semName'[t] # semOf'[p[1]][t])
  <2>1. Moves(p) /\ t \in Tray /\ at[p] \in Tray /\ p[1] \in Run
    BY <1>1, MovesOfStep, ProcFacts DEF NamesTypes
  <2>2. t \in Nat /\ at[p] \in Nat /\ 0 <= t
    BY <2>1, TrayFacts
  <2>3. pc[p] # "off" /\ (Past(p, t) => semName[t] # semOf[p[1]][t])
    BY DEF Usable
  <2>4. /\ semOf'[p[1]][t] = semOf[p[1]][t] /\ semOf[p[1]][t] \in Run
        /\ semName'[t] # semName[t] => semName'[t] # semOf[p[1]][t]
    BY HolderKeepsHandle
  <2>5. pc'[p] # "off"
    BY <2>1, <2>3 DEF Moves, Runs, Opening
  <2>6. Past(p, t)' => Past(p, t) \/ (pc[p] = "sem_unlink" /\ at[p] = t /\ Moves(p))
    <3>1. CASE pc[p] = "sem_unlink" /\ pc'[p] = "shm_unlink" /\ at'[p] = at[p] + 1
      <4>1. at[p] + 1 > t => at[p] > t \/ at[p] = t
        BY <2>2
      <4> QED
        BY <2>1, <3>1, <4>1 DEF Past, Handling
    <3>2. CASE pc[p] = "sem_unlink" /\ pc'[p] = "reraised" /\ \A u \in Tray : u <= at[p]
      <4>1. t <= at[p]
        BY <2>1, <3>2
      <4>2. at[p] > t \/ at[p] = t
        BY <2>2, <4>1
      <4> QED
        BY <2>1, <3>2, <4>2 DEF Past, Handling
    <3>3. CASE at'[p] = 0 /\ pc'[p] = "shm_unlink" /\ pc[p] \in Runs
      <4>1. ~(0 > t)
        BY <2>2
      <4> QED
        BY <3>3, <4>1 DEF Past, Handling
    <3> QED
      BY <2>1, <2>3, <3>1, <3>2, <3>3 DEF Moves, Past, Runs, Opening, Handling
  <2>7. pc[p] = "sem_unlink" /\ at[p] = t /\ Moves(p) /\ Past(p, t)' => Past(p, t) \/ semName'[t] = None
    <3>1. t \in named[p[1]]
      BY <1>1, <2>1, <2>4, TrayFacts DEF Progress
    <3>2. ~(t > t)
      BY <2>2
    <3> QED
      BY <3>1, <3>2 DEF Moves, Past, Runs, Opening, Handling
  <2>8. None \notin Run
    BY TrayFacts
  <2> QED
    BY <2>3, <2>4, <2>5, <2>6, <2>7, <2>8
<1>4. ASSUME NEW p \in Proc, pc'[p] \in {"work", "post"}, NEW t
      PROVE  pc'[p] # "off" /\ ~Past(p, t)'
  BY <1>4 DEF Past, Handling
<1>5. \A p \in Proc : \A t \in holds'[p] :
        pc'[p] # "off" /\ (Past(p, t)' => semName'[t] # semOf'[p[1]][t])
  BY <1>2, <1>3, <1>4
<1>6. \A t \in Tray : semName'[t] # None /\ semVal'[t][semName'[t]] = 0 =>
        \E p \in Proc : t \in holds'[p] /\ semOf'[p[1]][t] = semName'[t]
  BY HeldStep
<1> QED
  BY <1>5, <1>6 DEF Usable

\* Values and Usable hold in every state.
LEMMA ValuesInvariant == Spec => [](Values /\ Usable)
<1>1. Init => Values /\ Usable
  BY DEF Init, Values, Usable
<1>2. NamesInv /\ (Values /\ Usable) /\ [Next]_vars => (Values /\ Usable)'
  BY ValuesStep, UsableStep
<1> QED
  BY <1>1, <1>2, NamesInvariant, PTL DEF Spec

(***************************************************************************)
(* 10-Semaphore: a semaphore under its name is free, or a process that     *)
(* still runs or was killed holds it; one that was interrupted never       *)
(* leaves a taken semaphore linked, whoever else creates or unlinks.       *)
(***************************************************************************)
THEOREM LinkedSemaphoresUsable == Spec => []LinkedSemaphoreUsable
<1>1. NamesInv /\ Values /\ Usable => LinkedSemaphoreUsable
  <2> SUFFICES ASSUME NamesInv, Values, Usable, NEW t \in Tray,
                      semName[t] # None, semVal[t][semName[t]] = 0
               PROVE  \E p \in Proc : /\ t \in holds[p] /\ semOf[p[1]][t] = semName[t]
                                      /\ Living(p) \/ pc[p] = "killed"
    BY DEF LinkedSemaphoreUsable
  <2>1. PICK p \in Proc : t \in holds[p] /\ semOf[p[1]][t] = semName[t]
    BY DEF Usable
  <2>2. pc[p] # "off" /\ pc[p] # "reraised"
    BY <2>1 DEF Usable, Past
  <2>3. pc[p] # "failed"
    <3>1. p # main(p[1]) /\ p[1] \in Run
      BY <2>1, ProcFacts DEF NamesInv, Labels
    <3>2. \E c \in Child : p = <<p[1], c>>
      BY <3>1, ProcFacts
    <3> QED
      BY <3>1, <3>2 DEF NamesInv, Labels, ChildLabel, Handling
  <2> QED
    BY <2>1, <2>2, <2>3 DEF Living, Ended
<1> QED
  BY <1>1, NamesInvariant, ValuesInvariant, PTL

----------------------------------------------------------------------------
\* Once a start and a cleanup overlapped, the run is not quiet any more.
LEMMA QuietBefore ==
  ASSUME [Next]_vars, quiet'
  PROVE  quiet
<1>1. ASSUME NEW r \in Run, Start(r) PROVE quiet
  BY <1>1 DEF Start
<1>2. ASSUME NEW r \in Run, NEW S \in SUBSET Role, Sigint(r, S) PROVE quiet
  BY <1>2 DEF Sigint
<1>3. ASSUME NEW r \in Run,
             Name(r) \/ SemOpen(r) \/ ShmOpen(r) \/ Map(r) \/ Fail(r) \/ Fork(r)
               \/ (\E c \in Child, u \in Tray : Wait(r, c, u) \/ Post(r, c, u))
      PROVE  UNCHANGED quiet
  BY <1>3 DEF Name, SemOpen, ShmOpen, Map, Fail, Fork, Wait, Post
<1>4. ASSUME NEW p \in Proc, ShmUnlink(p) \/ SemUnlink(p) \/ Sigkill(p) PROVE UNCHANGED quiet
  BY <1>4 DEF ShmUnlink, SemUnlink, Sigkill
<1>5. UNCHANGED vars => UNCHANGED quiet
  BY DEF vars
<1> QED
  BY <1>1, <1>2, <1>3, <1>4, <1>5 DEF Next

\* A quiet step keeps shmInit and cleanup apart.
LEMMA ApartStep ==
  ASSUME NamesInv, Apart, [Next]_vars, quiet'
  PROVE  Apart'
<1> SUFFICES ASSUME NEW r \in Run, NEW p \in Proc, pc'[main(r)] \in Opening, pc'[p] \in Handling
             PROVE  FALSE
  BY DEF Apart
<1>1. main(r) \in Proc
  BY ProcFacts
<1>2. Moves(p) /\ Moves(main(r))
  BY <1>1, MovesOfStep
<1>3. pc[p] \in Handling
  BY <1>2 DEF Moves, Handling, Runs, Opening
<1>4. pc[main(r)] \in Opening
  BY <1>2 DEF Moves, Opening, Handling
<1> QED
  BY <1>3, <1>4 DEF Apart

\* A step that changes no name and no handle keeps Matched.
LEMMA MatchedStays ==
  ASSUME NamesInv, Matched, [Next]_vars, UNCHANGED <<semName, shmName, semOf, shmOf>>
  PROVE  Matched'
<1>1. ASSUME NEW r \in Run, pc'[main(r)] = "shm_open"
      PROVE  semName'[at'[main(r)]] = semOf'[r][at'[main(r)]]
  <2>1. Moves(main(r)) /\ main(r)[1] = r
    BY MovesOfStep, ProcFacts
  <2> QED
    BY <1>1, <2>1 DEF Moves, Matched
<1>2. ASSUME NEW p \in Proc, pc'[p] = "sem_unlink"
      PROVE  shmName'[at'[p]] = None
  <2>1. Moves(p)
    BY MovesOfStep
  <2> QED
    BY <1>2, <2>1 DEF Moves, Matched, Runs, Opening
<1> QED
  BY <1>1, <1>2 DEF Matched

\* sem_open keeps Matched.
LEMMA MatchedSemOpen ==
  ASSUME NamesInv, Apart, Matched, NEW r \in Run, SemOpen(r)
  PROVE  Matched'
<1> DEFINE t == at[main(r)]
           o == SemFound(r)
<1>1. NamesTypes /\ Created /\ \A x \in Run : Progress(x)
  BY DEF NamesInv
<1>2. /\ pc[main(r)] = "sem_open" /\ t \in Tray /\ o \in Run
      /\ semName' = [semName EXCEPT ![t] = o]
      /\ \A x \in Run, u \in Tray : semOf'[x][u] = IF x = r /\ u = t THEN o ELSE semOf[x][u]
      /\ pc' = [pc EXCEPT ![main(r)] = "shm_open"]
      /\ UNCHANGED <<shmName, shmOf, at>>
  BY <1>1, SemOpenEffect
<1>3. semOf[r][t] = None /\ shmOf[r][t] = None /\ o # None
  BY <1>1, <1>2, NotYetOpen, TrayFacts
<1>4. semName'[t] = o /\ \A u \in Tray : u # t => semName'[u] = semName[u]
  BY <1>1, <1>2 DEF NamesTypes
<1>5. \A u \in Tray : semName[u] # None => semName'[u] = semName[u]
  BY <1>4 DEF SemFound
<1>6. \A p \in Proc : pc'[p] = IF p = main(r) THEN "shm_open" ELSE pc[p]
  BY <1>1, <1>2 DEF NamesTypes
<1>7. \A p \in Proc : at[p] \in Tray
  BY <1>1 DEF NamesTypes
<1>8. ASSUME NEW x \in Run, pc'[main(x)] = "shm_open"
      PROVE  semName'[at'[main(x)]] = semOf'[x][at'[main(x)]]
  <2>1. CASE x = r
    BY <1>2, <1>4, <2>1
  <2>2. CASE x # r
    <3>1. main(x) \in Proc /\ main(x) # main(r)
      BY <2>2, ProcFacts
    <3>2. pc[main(x)] = "shm_open" /\ at[main(x)] \in Tray
      BY <1>6, <1>7, <1>8, <3>1
    <3>3. semName[at[main(x)]] = semOf[x][at[main(x)]] /\ semOf[x][at[main(x)]] # None
      BY <1>1, <3>2, NotYetOpen DEF Matched
    <3> QED
      BY <1>2, <1>5, <2>2, <3>2, <3>3
  <2> QED
    BY <2>1, <2>2
<1>9. \A p \in Proc : pc'[p] = "sem_unlink" => shmName'[at'[p]] = None
  BY <1>2, <1>6 DEF Matched
<1>10. ASSUME NEW u \in Tray, shmName'[u] # None
       PROVE  /\ semName'[u] # None
              /\ \A x \in Run : shmOf'[x][u] = shmName'[u] => semOf'[x][u] = semName'[u]
  <2>1. /\ semName[u] # None
        /\ \A x \in Run : shmOf[x][u] = shmName[u] => semOf[x][u] = semName[u]
    BY <1>2, <1>10 DEF Matched
  <2>2. semName'[u] = semName[u]
    BY <1>5, <2>1
  <2>3. \A x \in Run : shmOf[x][u] = shmName[u] => ~(x = r /\ u = t)
    BY <1>2, <1>3, <1>10
  <2> QED
    BY <1>2, <2>1, <2>2, <2>3
<1>11. ASSUME NEW u \in Tray, NEW x \in Run, NEW y \in Run,
              shmOf'[x][u] # None, shmOf'[x][u] = shmOf'[y][u]
       PROVE  semOf'[x][u] = semOf'[y][u]
  <2>1. ~(x = r /\ u = t) /\ ~(y = r /\ u = t)
    BY <1>2, <1>3, <1>11
  <2>2. semOf[x][u] = semOf[y][u]
    BY <1>2, <1>11 DEF Matched
  <2> QED
    BY <1>2, <2>1, <2>2
<1> QED
  BY <1>8, <1>9, <1>10, <1>11 DEF Matched

\* shm_open keeps Matched: the run has the linked semaphore open.
LEMMA MatchedShmOpen ==
  ASSUME NamesInv, Apart, Matched, NEW r \in Run, ShmOpen(r)
  PROVE  Matched'
<1> DEFINE t == at[main(r)]
           o == ShmFound(r)
<1>1. NamesTypes /\ Created /\ \A x \in Run : Progress(x)
  BY DEF NamesInv
<1>2. /\ pc[main(r)] = "shm_open" /\ t \in Tray /\ o \in Run
      /\ shmName' = [shmName EXCEPT ![t] = o]
      /\ \A x \in Run, u \in Tray : shmOf'[x][u] = IF x = r /\ u = t THEN o ELSE shmOf[x][u]
      /\ pc' = [pc EXCEPT ![main(r)] = "map"]
      /\ UNCHANGED <<semName, semOf, at>>
  BY <1>1, ShmOpenEffect
<1>3. semOf[r][t] # None /\ shmOf[r][t] = None /\ o # None /\ semName[t] = semOf[r][t]
  BY <1>1, <1>2, NotYetOpen, TrayFacts DEF Matched
<1>4. \A x \in Run : shmOf[x][t] # r
  BY <1>1, <1>2, <1>3, NotYetCreated
<1>5. shmName'[t] = o /\ \A u \in Tray : u # t => shmName'[u] = shmName[u]
  BY <1>1, <1>2 DEF NamesTypes
<1>6. \A p \in Proc : pc'[p] = IF p = main(r) THEN "map" ELSE pc[p]
  BY <1>1, <1>2 DEF NamesTypes
<1>7. ASSUME NEW x \in Run, x # r, shmOf[x][t] = o PROVE semOf[x][t] = semName[t]
  <2>1. shmName[t] # None /\ o = shmName[t]
    BY <1>4, <1>7 DEF ShmFound
  <2> QED
    BY <1>2, <1>7, <2>1 DEF Matched
<1>8. \A x \in Run : pc'[main(x)] = "shm_open" => semName'[at'[main(x)]] = semOf'[x][at'[main(x)]]
  <2>1. \A x \in Run : main(x) \in Proc
    BY ProcFacts
  <2> QED
    BY <1>2, <1>6, <2>1 DEF Matched
<1>9. \A p \in Proc : pc'[p] # "sem_unlink"
  BY <1>2, <1>6 DEF Apart, Opening, Handling
<1> HIDE DEF o, t
<1>10. ASSUME NEW u \in Tray, shmName'[u] # None
       PROVE  /\ semName'[u] # None
              /\ \A x \in Run : shmOf'[x][u] = shmName'[u] => semOf'[x][u] = semName'[u]
  <2>1. CASE u = t
    BY <1>2, <1>3, <1>5, <1>7, <2>1
  <2>2. CASE u # t
    BY <1>2, <1>5, <1>10, <2>2 DEF Matched
  <2> QED
    BY <2>1, <2>2
<1>11. ASSUME NEW u \in Tray, NEW x \in Run, NEW y \in Run,
              shmOf'[x][u] # None, shmOf'[x][u] = shmOf'[y][u]
       PROVE  semOf'[x][u] = semOf'[y][u]
  <2>1. CASE u = t /\ (x = r \/ y = r)
    BY <1>2, <1>3, <1>7, <1>11, <2>1
  <2>2. CASE ~(u = t /\ (x = r \/ y = r))
    BY <1>2, <1>11, <2>2 DEF Matched
  <2> QED
    BY <2>1, <2>2
<1> QED
  BY <1>8, <1>9, <1>10, <1>11 DEF Matched

\* cleanup keeps Matched: the memory object's name goes before the semaphore's.
LEMMA MatchedCleanup ==
  ASSUME NamesInv, Apart, Matched, [Next]_vars, NEW p \in Proc, ShmUnlink(p) \/ SemUnlink(p)
  PROVE  Matched'
<1> USE DEF handles
<1>1. NamesTypes
  BY DEF NamesInv
<1>2. pc[p] \in Handling /\ at[p] \in Tray /\ UNCHANGED <<semOf, shmOf>>
  BY <1>1 DEF NamesTypes, ShmUnlink, SemUnlink, Handling
<1>3. /\ \A t \in Tray : shmName'[t] = shmName[t] \/ shmName'[t] = None
      /\ \A t \in Tray : semName'[t] = semName[t] \/ shmName'[t] = None
  <2>1. CASE ShmUnlink(p)
    <3>1. shmName' = [shmName EXCEPT ![at[p]] = None] /\ UNCHANGED semName
      BY <2>1 DEF ShmUnlink
    <3> QED
      BY <1>1, <3>1 DEF NamesTypes
  <2>2. CASE SemUnlink(p)
    <3>1. /\ pc[p] = "sem_unlink" /\ UNCHANGED shmName
          /\ semName' = semName \/ semName' = [semName EXCEPT ![at[p]] = None]
      BY <2>2 DEF SemUnlink
    <3>2. shmName[at[p]] = None
      BY <3>1 DEF Matched
    <3> QED
      BY <1>1, <3>1, <3>2 DEF NamesTypes
  <2> QED
    BY <2>1, <2>2
<1>4. ASSUME NEW x \in Run PROVE pc'[main(x)] # "shm_open"
  <2>1. main(x) \in Proc /\ pc[main(x)] \notin Opening
    BY <1>2, ProcFacts DEF Apart
  <2>2. Moves(main(x))
    BY <2>1, MovesOfStep
  <2> QED
    BY <2>1, <2>2 DEF Moves, Opening, Runs
<1>5. ASSUME NEW q \in Proc, pc'[q] = "sem_unlink"
      PROVE  shmName'[at'[q]] = None
  <2>1. Moves(q) /\ at[q] \in Tray
    BY <1>1, MovesOfStep DEF NamesTypes
  <2>2. CASE pc'[q] = pc[q] /\ at'[q] = at[q]
    BY <1>3, <1>5, <2>1, <2>2 DEF Matched
  <2> QED
    BY <1>5, <2>1, <2>2 DEF Moves, Runs, Opening
<1>6. ASSUME NEW t \in Tray, shmName'[t] # None
      PROVE  /\ semName'[t] # None
             /\ \A x \in Run : shmOf'[x][t] = shmName'[t] => semOf'[x][t] = semName'[t]
  BY <1>2, <1>3, <1>6 DEF Matched
<1> QED
  BY <1>2, <1>4, <1>5, <1>6 DEF Matched

\* A step keeps Paired.
LEMMA PairedStep ==
  ASSUME NamesInv, Paired, [Next]_vars
  PROVE  Paired'
<1> SUFFICES ASSUME quiet' PROVE Apart' /\ Matched'
  BY DEF Paired
<1>1. Apart /\ Matched
  BY QuietBefore DEF Paired
<1>2. Apart'
  BY <1>1, ApartStep
<1>3. Matched'
  <2> USE DEF kernel, handles
  <2>1. ASSUME NEW r \in Run,
               Name(r) \/ Start(r) \/ Map(r) \/ Fail(r) \/ Fork(r)
                 \/ (\E S \in SUBSET Role : Sigint(r, S))
                 \/ (\E c \in Child, u \in Tray : Wait(r, c, u) \/ Post(r, c, u))
        PROVE  UNCHANGED <<semName, shmName, semOf, shmOf>>
    BY <2>1 DEF Name, Start, Map, Fail, Fork, Sigint, Wait, Post
  <2>2. ASSUME NEW p \in Proc, Sigkill(p) PROVE UNCHANGED <<semName, shmName, semOf, shmOf>>
    BY <2>2 DEF Sigkill
  <2>3. UNCHANGED vars => UNCHANGED <<semName, shmName, semOf, shmOf>>
    BY DEF vars
  <2>4. CASE UNCHANGED <<semName, shmName, semOf, shmOf>>
    BY <1>1, <2>4, MatchedStays
  <2>5. ASSUME NEW r \in Run, SemOpen(r) PROVE Matched'
    BY <1>1, <2>5, MatchedSemOpen
  <2>6. ASSUME NEW r \in Run, ShmOpen(r) PROVE Matched'
    BY <1>1, <2>6, MatchedShmOpen
  <2>7. ASSUME NEW p \in Proc, ShmUnlink(p) \/ SemUnlink(p) PROVE Matched'
    BY <1>1, <2>7, MatchedCleanup
  <2> QED
    BY <2>1, <2>2, <2>3, <2>4, <2>5, <2>6, <2>7 DEF Next
<1> QED
  BY <1>2, <1>3

(***************************************************************************)
(* 10-Semaphore: two processes, of one run or of several, are never inside *)
(* one buffer at once, as long as no run was opening its objects while     *)
(* another one was in cleanup.  Runs that share a buffer share its         *)
(* semaphore (Paired), and a semaphore has one holder (Values).            *)
(***************************************************************************)
THEOREM OneProcessPerBuffer == Spec => []OneInsidePerBuffer
<1>1. Init => Paired
  <2> SUFFICES ASSUME Init PROVE Apart /\ Matched
    BY DEF Paired
  <2>1. \A p \in Proc : pc[p] = "off"
    BY DEF Init
  <2>2. \A t \in Tray : shmName[t] = None /\ \A r \in Run : shmOf[r][t] = None
    BY DEF Init
  <2> QED
    BY <2>1, <2>2, ProcFacts DEF Apart, Matched, Handling, Opening
<1>2. NamesInv /\ Paired /\ [Next]_vars => Paired'
  BY PairedStep
<1>3. NamesInv /\ Values /\ Usable /\ Paired => OneInsidePerBuffer
  <2> SUFFICES ASSUME NamesInv, Values, Usable, Paired, quiet, NEW p \in Proc, NEW q \in Proc,
                      NEW t \in holds[p] \cap holds[q], p # q
               PROVE  shmOf[p[1]][t] # shmOf[q[1]][t]
    BY DEF OneInsidePerBuffer
  <2>1. semOf[p[1]][t] # semOf[q[1]][t]
    BY DEF Values
  <2>2. p[1] \in Run /\ q[1] \in Run /\ t \in Tray
    BY ProcFacts DEF NamesInv, NamesTypes
  <2>3. shmOf[p[1]][t] # None
    <3>1. pc[p] # "off" /\ p # main(p[1])
      BY <2>2 DEF Usable, NamesInv, Labels
    <3>2. \E c \in Child : p = <<p[1], c>>
      BY <3>1, ProcFacts
    <3> QED
      BY <2>2, <3>1, <3>2 DEF NamesInv, Progress
  <2> QED
    BY <2>1, <2>2, <2>3 DEF Paired, Matched
<1> QED
  BY <1>1, <1>2, <1>3, NamesInvariant, ValuesInvariant, PTL DEF Spec
==============================================================================
