--------------------------- MODULE SeedLifeProofs ---------------------------
(* Theorems about the life of a seed process, for any set of identities and *)
(* any number of processes of either stack over one home.                   *)
EXTENDS SeedLife, TLAPS

\* Which step loads the key and which opens the socket on each stack; and every
\* step past the socket has a failing path that calls closeTransport.
LEMMA StepsKnown ==
    /\ Len(Steps["cosmos"]) = 7 /\ Len(Steps["tm2"]) = 11 /\ Len(TM2Steps) = 11
    /\ \A s \in Stacks :
        /\ Len(Steps[s]) \in 7..11 /\ Socket[s] \in 4..5
        /\ Steps[s][1] # "key" /\ Steps[s][2] = "key" /\ Steps[s][Socket[s]] = "listen"
        /\ \A n \in 1..Len(Steps[s]) : n # Socket[s] => Steps[s][n] # "listen"
        /\ \A n \in 1..Len(Steps[s]) : n # 2 => Steps[s][n] # "key"
        /\ \A n \in 1..Len(Steps[s]) : n > Socket[s] => Steps[s][n] \in Releases[s]
<1>1. /\ Len(CosmosSteps) = 7 /\ Socket["cosmos"] = 5 /\ CosmosSteps[1] # "key"
      /\ CosmosSteps[2] = "key" /\ CosmosSteps[5] = "listen"
      /\ \A n \in 1..7 : n # 5 => CosmosSteps[n] # "listen"
      /\ \A n \in 1..7 : n # 2 => CosmosSteps[n] # "key"
      /\ \A n \in 1..7 : n > 5 => CosmosSteps[n] \in CosmosReleases
  BY DEF CosmosSteps, Socket, CosmosReleases
<1>2. /\ Len(TM2Steps) = 11 /\ Socket["tm2"] = 4 /\ TM2Steps[1] # "key"
      /\ TM2Steps[2] = "key" /\ TM2Steps[4] = "listen"
      /\ \A n \in 1..11 : n # 4 => TM2Steps[n] # "listen"
      /\ \A n \in 1..11 : n # 2 => TM2Steps[n] # "key"
      /\ \A n \in 1..11 : n > 4 => TM2Steps[n] \in TM2Releases
  BY DEF TM2Steps, Socket, TM2Releases
<1> DEFINE Orderly(steps, socket, releases) ==
        /\ Len(steps) \in 7..11 /\ socket \in 4..5
        /\ steps[1] # "key" /\ steps[2] = "key" /\ steps[socket] = "listen"
        /\ \A n \in 1..Len(steps) : n # socket => steps[n] # "listen"
        /\ \A n \in 1..Len(steps) : n # 2 => steps[n] # "key"
        /\ \A n \in 1..Len(steps) : n > socket => steps[n] \in releases
<1>3. Orderly(CosmosSteps, 5, CosmosReleases) /\ Orderly(TM2Steps, 4, TM2Releases)
  BY <1>1, <1>2
<1>4. /\ Steps["cosmos"] = CosmosSteps /\ Steps["tm2"] = TM2Steps
      /\ Releases["cosmos"] = CosmosReleases /\ Releases["tm2"] = TM2Releases
      /\ Socket["cosmos"] = 5 /\ Socket["tm2"] = 4
  BY DEF Steps, Releases, Socket
<1>5. \A s \in Stacks : s = "cosmos" \/ s = "tm2"
  BY DEF Stacks
<1>6. \A s \in Stacks : Orderly(Steps[s], Socket[s], Releases[s])
  <2> HIDE DEF Orderly
  <2>1. ASSUME NEW s \in Stacks
        PROVE  Orderly(Steps[s], Socket[s], Releases[s])
    <3>1. CASE s = "cosmos"
      BY <1>3, <1>4, <3>1, Zenon
    <3>2. CASE s = "tm2"
      BY <1>3, <1>4, <3>2, Zenon
    <3> QED
      BY <1>5, <2>1, <3>1, <3>2
  <2> QED
    BY <2>1
<1> QED
  BY <1>1, <1>2, <1>4, <1>6

LEMMA KeyLoaded ==
    ASSUME key \in Keys \cup {None}, NEW s \in Stacks, LoadKey(s)
    PROVE  /\ key' \in Keys /\ key'.stack = s /\ key'.id \in Ids
           /\ key # None => key' = key
  BY DEF LoadKey, KeyFits, Keys, Stacks

\* A process that is gone leaves only its files.
LEMMA GonePreserves ==
    ASSUME LifeInvariant, Gone
    PROVE  LifeInvariant'
<1> USE DEF Gone, LifeInvariant, home
<1>1. TypeOK'
  <2>0. (config \in Configs \cup {None})' /\ (touched \subseteq {"stack", "key"})'
    BY DEF TypeOK
  <2>1. (key \in Keys \cup {None})'
    BY DEF TypeOK
  <2>2. (book \in Stacks \cup {None})' /\ (stack \in Stacks)' 
    BY DEF TypeOK
  <2>3. (endpoint \in BOOLEAN)'
    BY DEF TypeOK
  <2>4. (built \in 0..Len(TM2Steps))' /\ (id \in Ids \cup {None})'
    BY DEF TypeOK
  <2>5. (dirty \in BOOLEAN)' /\ (owed \in BOOLEAN)'
    BY DEF TypeOK
  <2> QED
    BY <2>0, <2>1, <2>2, <2>3, <2>4, <2>5 DEF TypeOK
<1>2. MainAndSwitch' /\ HandlerAndSwitch' /\ OwedUntilSaved'
  BY DEF MainAndSwitch, HandlerAndSwitch, OwedUntilSaved, Up
<1>3. Construction'
  BY DEF Construction, Up
<1>4. FailureReleases' /\ ServingListens' /\ HomeIsOneStack' /\ ConfigIsServed'
  BY DEF FailureReleases, ServingListens, HomeIsOneStack, ConfigIsServed
<1> QED
  BY <1>1, <1>2, <1>3, <1>4

\* What settles the stack of a process.
LEMMA ConfigPreserves ==
    ASSUME LifeInvariant, NEW flag \in Flags, LoadOrGenConfig(flag)
    PROVE  LifeInvariant'
<1>1. /\ main = "down" /\ main' = "loaded"
      /\ UNCHANGED <<touched, key, book, built, id, transport, metrics, switch>>
      /\ UNCHANGED <<handler, dirty, owed>>
  BY DEF LoadOrGenConfig
<1>2. (endpoint \in BOOLEAN)'
  BY DEF LoadOrGenConfig
<1>3. stack' \in Stacks /\ stack' = SeedStack(config')
  BY DEF LoadOrGenConfig, StackServed
<1>4. config' \in Configs /\ (config # None => config' = config)
  BY DEF LoadOrGenConfig, LifeInvariant, TypeOK, Configs, Flags, Stacks
<1>5. config' # None
  BY <1>4, NoneAssumption
<1>6. /\ built = 0 /\ id = None /\ transport = "none" /\ switch = "idle" /\ handler = "none"
      /\ metrics = "none" /\ ~owed
  BY <1>1 DEF LifeInvariant, Construction, MainAndSwitch, OwedUntilSaved, Up
<1>7. TypeOK'
  BY <1>1, <1>2, <1>3, <1>4 DEF LifeInvariant, TypeOK
<1>8. MainAndSwitch' /\ HandlerAndSwitch' /\ OwedUntilSaved' /\ FailureReleases' /\ ServingListens'
  BY <1>1, <1>6
     DEF MainAndSwitch, HandlerAndSwitch, OwedUntilSaved, FailureReleases, ServingListens, Up
<1>9. Construction'
  BY <1>1, <1>6 DEF Construction, Up
<1>10. HomeIsOneStack' /\ ConfigIsServed'
  BY <1>1, <1>3, <1>4, <1>5, <1>6 DEF LifeInvariant, HomeIsOneStack, ConfigIsServed
<1> QED
  BY <1>7, <1>8, <1>9, <1>10 DEF LifeInvariant

\* What changes in the files alone, whoever does it.
LEMMA HomePreserves ==
    ASSUME LifeInvariant, WriteConfigFails \/ EditStack \/ RotateKey
    PROVE  LifeInvariant'
<1>1. UNCHANGED <<process, book>>
  BY DEF WriteConfigFails, EditStack, RotateKey
<1>2. /\ config' \in Configs \cup {None} /\ touched' \subseteq {"stack", "key"}
      /\ key' \in {key, None}
  BY DEF WriteConfigFails, EditStack, RotateKey, LifeInvariant, TypeOK, Configs
<1>3. TypeOK'
  <2>1. (endpoint \in BOOLEAN)' /\ (dirty \in BOOLEAN)' /\ (owed \in BOOLEAN)'
    BY <1>1 DEF process, LifeInvariant, TypeOK
  <2> QED
    BY <1>1, <1>2, <2>1 DEF process, LifeInvariant, TypeOK
<1>4. /\ MainAndSwitch' /\ HandlerAndSwitch' /\ OwedUntilSaved' /\ FailureReleases'
      /\ ServingListens' /\ Construction'
  BY <1>1 DEF process, LifeInvariant, MainAndSwitch, HandlerAndSwitch, OwedUntilSaved,
              FailureReleases, ServingListens, Construction, Up
<1>5. HomeIsOneStack' /\ ConfigIsServed'
  <2> USE DEF process, LifeInvariant, HomeIsOneStack, ConfigIsServed
  <2>1. CASE WriteConfigFails
    <3>1. config = None /\ config' = "unset" /\ UNCHANGED <<touched, key>>
      BY <2>1 DEF WriteConfigFails
    <3>2. main = "down"
      BY <2>1 DEF WriteConfigFails
    <3> QED
      BY <1>1, <3>1, <3>2, NoneAssumption DEF Configs
  <2>2. CASE EditStack
    <3>1. "stack" \in touched' /\ UNCHANGED key /\ ("key" \in touched' <=> "key" \in touched)
      BY <2>2 DEF EditStack
    <3> QED
      BY <1>1, <3>1
  <2>3. CASE RotateKey
    <3>1. /\ key' = None /\ "key" \in touched' /\ UNCHANGED config
          /\ ("stack" \in touched' <=> "stack" \in touched)
      BY <2>3 DEF RotateKey
    <3>2. id = None
      BY <2>3 DEF RotateKey, Construction
    <3> QED
      BY <1>1, <3>1, <3>2
  <2> QED
    BY <2>1, <2>2, <2>3
<1> QED
  BY <1>3, <1>4, <1>5 DEF LifeInvariant

\* show-node-id.
LEMMA NodeIDPreserves ==
    ASSUME LifeInvariant, NodeID
    PROVE  LifeInvariant'
<1>1. /\ main = "loaded" /\ main' = "down"
      /\ UNCHANGED <<config, touched, book, stack, endpoint, built, id, transport, metrics>>
      /\ UNCHANGED <<switch, handler, dirty, owed>>
  BY DEF NodeID
<1>2. stack \in Stacks
  BY DEF LifeInvariant, TypeOK
<1>3. key' \in Keys /\ key'.stack = stack /\ (key # None => key' = key)
  BY <1>2, KeyLoaded DEF NodeID, LifeInvariant, TypeOK
<1>4. key' # None /\ id = None
  BY <1>1, <1>3, NoneAssumption DEF LifeInvariant, Construction
<1>5. TypeOK'
  <2>1. (endpoint \in BOOLEAN)' /\ (dirty \in BOOLEAN)' /\ (owed \in BOOLEAN)'
    BY <1>1 DEF LifeInvariant, TypeOK
  <2> QED
    BY <1>1, <1>3, <2>1 DEF LifeInvariant, TypeOK
<1>6. /\ MainAndSwitch' /\ HandlerAndSwitch' /\ OwedUntilSaved' /\ FailureReleases'
      /\ ServingListens' /\ Construction'
  BY <1>1 DEF LifeInvariant, MainAndSwitch, HandlerAndSwitch, OwedUntilSaved,
              FailureReleases, ServingListens, Construction, Up
<1>7. HomeIsOneStack' /\ ConfigIsServed'
  BY <1>1, <1>3, <1>4 DEF LifeInvariant, HomeIsOneStack, ConfigIsServed
<1> QED
  BY <1>5, <1>6, <1>7 DEF LifeInvariant

LEMMA BuildStepPreserves ==
    ASSUME LifeInvariant, BuildStep
    PROVE  LifeInvariant'
<1>1. /\ stack \in Stacks /\ Len(Steps[stack]) \in 7..11 /\ Socket[stack] \in 4..5 /\ Len(TM2Steps) = 11
      /\ built \in Nat /\ built < Len(Steps[stack])
  BY StepsKnown DEF LifeInvariant, TypeOK, BuildStep
<1>2. built' = built + 1 /\ built' <= Len(Steps[stack]) /\ built' \in 1..11
  <2>1. built' = built + 1
    BY DEF BuildStep
  <2>2. ASSUME NEW L \in 7..11, NEW n \in Nat, n < L
        PROVE  n + 1 <= L /\ n + 1 \in 1..11
    BY <2>2
  <2> QED
    BY <1>1, <2>1, <2>2
<1>3. built + 1 \in 1..Len(Steps[stack])
  BY <1>1
<1>4. (Step = "key" <=> built = 1) /\ (Step = "listen" <=> built + 1 = Socket[stack])
  BY <1>1, <1>3, StepsKnown DEF Step
<1>5. UNCHANGED <<book, stack, main, metrics, switch, handler>> /\ main = "building"
  BY DEF BuildStep
<1>6. UNCHANGED <<config, touched, endpoint, dirty, owed>>
  BY DEF BuildStep
<1>7. transport' = IF Step = "listen" THEN "open" ELSE transport
  BY DEF BuildStep
<1>8. /\ (key \in Keys \cup {None})' /\ (id \in Ids \cup {None})'
      /\ built' >= 2 => id' # None
      /\ HomeIsOneStack'
  <2>1. CASE Step = "key"
    <3>1. key' \in Keys /\ key'.stack = stack /\ key'.id \in Ids /\ (key # None => key' = key)
      BY <1>1, <2>1, KeyLoaded DEF BuildStep, LifeInvariant, TypeOK
    <3>2. id' = key'.id
      BY <2>1 DEF BuildStep
    <3>3. id' # None /\ key' # None
      BY <3>1, <3>2, NoneAssumption
    <3> QED
      BY <1>5, <1>6, <3>1, <3>2, <3>3 DEF LifeInvariant, HomeIsOneStack, ConfigIsServed
  <2>2. CASE Step # "key"
    <3>1. UNCHANGED <<key, id>>
      BY <2>2 DEF BuildStep
    <3>2. built' >= 2 => id' # None
      BY <1>1, <1>2, <1>4, <1>5, <2>2, <3>1 DEF LifeInvariant, Construction
    <3> QED
      BY <1>5, <1>6, <3>1, <3>2 DEF LifeInvariant, HomeIsOneStack, TypeOK
  <2> QED
    BY <2>1, <2>2
<1>9. transport' = IF built' >= Socket[stack] THEN "open" ELSE "none"
  <2>1. transport = IF built >= Socket[stack] THEN "open" ELSE "none"
    BY <1>5 DEF LifeInvariant, Construction
  <2> QED
    BY <1>1, <1>2, <1>4, <1>7, <2>1
<1>10. TypeOK'
  <2>1. (built \in 0..Len(TM2Steps))'
    BY <1>1, <1>2
  <2>2. transport' \in {"none", "open", "closed"}
    BY <1>9
  <2>3. /\ (config \in Configs \cup {None})' /\ (touched \subseteq {"stack", "key"})'
        /\ (book \in Stacks \cup {None})' /\ (stack \in Stacks)' /\ (endpoint \in BOOLEAN)'
        /\ (dirty \in BOOLEAN)' /\ (owed \in BOOLEAN)'
    BY <1>5, <1>6 DEF LifeInvariant, TypeOK
  <2> QED
    BY <1>5, <1>8, <2>1, <2>2, <2>3 DEF LifeInvariant, TypeOK
<1>11. Construction'
  BY <1>2, <1>5, <1>8, <1>9 DEF Construction, Up
<1>12. /\ MainAndSwitch' /\ HandlerAndSwitch' /\ OwedUntilSaved' /\ FailureReleases'
       /\ ServingListens' /\ ConfigIsServed'
  BY <1>5, <1>6
     DEF LifeInvariant, ConfigIsServed, MainAndSwitch, HandlerAndSwitch, OwedUntilSaved, FailureReleases,
         ServingListens, Up
<1> QED
  BY <1>8, <1>10, <1>11, <1>12 DEF LifeInvariant

\* A save writes the book of the stack that runs.
LEMMA SavePreserves ==
    ASSUME LifeInvariant, Up, Save, UNCHANGED handler,
           UNCHANGED <<config, touched, key, stack, endpoint, main, built, id, transport, metrics>>
    PROVE  /\ HomeIsOneStack' /\ ConfigIsServed' /\ ~owed' /\ FailureReleases' /\ Construction'
           /\ (switch' \in {"running", "stopping", "flushed"} /\ switch \in {"running", "stopping"}
                => ServingListens')
           /\ (book \in Stacks \cup {None})' /\ (dirty \in BOOLEAN)' /\ (owed \in BOOLEAN)'
           /\ (endpoint \in BOOLEAN)'
<1>1. id # None /\ stack \in Stacks /\ book' \in {book, stack} /\ main # "down"
  BY DEF LifeInvariant, TypeOK, Construction, Up, Save
<1>2. HomeIsOneStack' /\ ConfigIsServed'
  BY <1>1 DEF LifeInvariant, HomeIsOneStack, ConfigIsServed
<1>3. /\ (book \in Stacks \cup {None})' /\ (dirty \in BOOLEAN)' /\ (endpoint \in BOOLEAN)' /\ owed' = FALSE
  BY <1>1 DEF LifeInvariant, TypeOK, Save
<1>4. FailureReleases' /\ Construction'
  BY DEF LifeInvariant, FailureReleases, Construction, Up
<1>5. switch' \in {"running", "stopping", "flushed"} /\ switch \in {"running", "stopping"}
        => ServingListens'
  BY DEF LifeInvariant, ServingListens
<1> QED
  BY <1>2, <1>3, <1>4, <1>5

LEMMA PersistPreserves ==
    ASSUME LifeInvariant, Persist
    PROVE  LifeInvariant'
<1>1. /\ switch \in {"running", "stopping"} /\ Save
      /\ UNCHANGED <<config, touched, key, stack, endpoint, main, built, id, transport, metrics>>
      /\ UNCHANGED <<switch, handler>>
  BY DEF Persist
<1>2. Up
  BY <1>1 DEF LifeInvariant, TypeOK, MainAndSwitch, Up
<1>3. /\ HomeIsOneStack' /\ ConfigIsServed' /\ ~owed' /\ FailureReleases' /\ Construction'
      /\ ServingListens'
      /\ (book \in Stacks \cup {None})' /\ (dirty \in BOOLEAN)' /\ (owed \in BOOLEAN)'
      /\ (endpoint \in BOOLEAN)'
  BY <1>1, <1>2, SavePreserves
<1>4. TypeOK'
  BY <1>1, <1>3 DEF LifeInvariant, TypeOK
<1>5. MainAndSwitch' /\ HandlerAndSwitch' /\ OwedUntilSaved'
  BY <1>1, <1>3 DEF LifeInvariant, MainAndSwitch, HandlerAndSwitch, OwedUntilSaved, Up
<1> QED
  BY <1>3, <1>4, <1>5 DEF LifeInvariant

LEMMA ReactorsStopPreserves ==
    ASSUME LifeInvariant, ReactorsStop
    PROVE  LifeInvariant'
<1>1. /\ switch = "stopping" /\ switch' = "flushed"
      /\ UNCHANGED <<config, touched, key, stack, endpoint, main, built, id, transport, metrics>>
      /\ UNCHANGED handler
  BY DEF ReactorsStop
<1>2. Up /\ handler = "halting" /\ stack \in Stacks
  BY <1>1 DEF LifeInvariant, TypeOK, MainAndSwitch, HandlerAndSwitch, Up
<1>3. MainAndSwitch' /\ HandlerAndSwitch' /\ ServingListens'
  BY <1>1, <1>2 DEF LifeInvariant, MainAndSwitch, HandlerAndSwitch, ServingListens, Up
<1>4. CASE stack = "tm2"
  <2>1. /\ HomeIsOneStack' /\ ConfigIsServed' /\ ~owed' /\ FailureReleases' /\ Construction'
        /\ (book \in Stacks \cup {None})' /\ (dirty \in BOOLEAN)' /\ (owed \in BOOLEAN)'
        /\ (endpoint \in BOOLEAN)'
    BY <1>1, <1>2, <1>4, SavePreserves DEF ReactorsStop
  <2>2. TypeOK'
    BY <1>1, <2>1 DEF LifeInvariant, TypeOK
  <2> QED
    BY <1>3, <2>1, <2>2 DEF LifeInvariant, OwedUntilSaved
<1>5. CASE stack # "tm2"
  <2>1. UNCHANGED <<book, dirty, owed>> /\ ~owed
    BY <1>2, <1>5 DEF ReactorsStop, LifeInvariant, OwedUntilSaved
  <2>2. (dirty \in BOOLEAN)' /\ (owed \in BOOLEAN)' /\ (endpoint \in BOOLEAN)'
    BY <1>1, <2>1 DEF LifeInvariant, TypeOK
  <2>3. TypeOK'
    BY <1>1, <2>1, <2>2 DEF LifeInvariant, TypeOK
  <2>4. HomeIsOneStack' /\ ConfigIsServed' /\ FailureReleases' /\ Construction' /\ OwedUntilSaved'
    BY <1>1, <1>2, <2>1
       DEF LifeInvariant, HomeIsOneStack, ConfigIsServed, FailureReleases, Construction,
           OwedUntilSaved, Up
  <2> QED
    BY <1>3, <2>3, <2>4 DEF LifeInvariant
<1> QED
  BY <1>4, <1>5

\* A step that fails past the socket releases it, and one that fails before or
\* at it has nothing to release.
LEMMA BuildFailsPreserves ==
    ASSUME LifeInvariant, BuildFails
    PROVE  LifeInvariant'
<1>1. /\ main = "building" /\ main' = "failed" /\ UNCHANGED <<config, touched, key, book, stack, endpoint>>
      /\ UNCHANGED <<built, id, metrics, switch, handler, dirty, owed>>
      /\ transport' = IF Step \in Releases[stack] THEN closeTransport ELSE transport
      /\ built < Len(Steps[stack])
  BY DEF BuildFails, home
<1>2. /\ stack \in Stacks /\ built \in Nat /\ Socket[stack] \in 4..5 /\ Len(Steps[stack]) \in 7..11
      /\ transport = IF built >= Socket[stack] THEN "open" ELSE "none"
  BY <1>1, StepsKnown DEF LifeInvariant, TypeOK, Construction
<1>3. built >= Socket[stack] => Step \in Releases[stack]
  <2>1. built + 1 \in 1..Len(Steps[stack])
    BY <1>1, <1>2
  <2>2. built >= Socket[stack] => built + 1 > Socket[stack]
    BY <1>2
  <2> QED
    BY <1>2, <2>1, <2>2, StepsKnown DEF Step
<1>4. transport' \in {"none", "closed"}
  BY <1>1, <1>2, <1>3 DEF closeTransport
<1>5. metrics = "none" /\ switch = "idle" /\ handler = "none"
  BY <1>1 DEF LifeInvariant, MainAndSwitch, Up
<1>6. FailureReleases' /\ ServingListens' /\ MainAndSwitch' /\ HandlerAndSwitch' /\ Construction'
  BY <1>1, <1>4, <1>5 DEF FailureReleases, ServingListens, MainAndSwitch, HandlerAndSwitch, Construction, Up
<1>7. TypeOK'
  BY <1>1, <1>4 DEF LifeInvariant, TypeOK
<1>8. HomeIsOneStack' /\ ConfigIsServed' /\ OwedUntilSaved'
  BY <1>1 DEF LifeInvariant, HomeIsOneStack, ConfigIsServed, OwedUntilSaved
<1> QED
  BY <1>6, <1>7, <1>8 DEF LifeInvariant

LEMMA BuildPreserves ==
    ASSUME LifeInvariant,
           \/ \E flag \in Flags : LoadOrGenConfig(flag)
           \/ WriteConfigFails \/ EditStack \/ RotateKey \/ NodeID \/ NodeIDFails
           \/ NewNode \/ BuildStep \/ Built \/ BuildFails
    PROVE  LifeInvariant'
<1> USE DEF LifeInvariant, TypeOK, ConfigIsServed, MainAndSwitch, HandlerAndSwitch, Construction,
            OwedUntilSaved, FailureReleases, ServingListens, HomeIsOneStack, Up, home
<1>1. CASE NodeIDFails
  <2>1. (endpoint \in BOOLEAN)' /\ (dirty \in BOOLEAN)' /\ (owed \in BOOLEAN)'
    BY <1>1 DEF NodeIDFails
  <2> QED
    BY <1>1, <2>1 DEF NodeIDFails
<1>2. CASE NewNode
  <2>1. stack \in Stacks /\ Len(Steps[stack]) \in 7..11 /\ Socket[stack] \in 4..5
    BY StepsKnown
  <2> QED
    BY <1>2, <2>1 DEF NewNode
<1>3. CASE BuildStep
  BY <1>3, BuildStepPreserves
<1>4. CASE Built
  <2>1. built >= Socket[stack] /\ built >= 2
    BY <1>4, StepsKnown DEF Built
  <2> QED
    BY <1>4, <2>1 DEF Built
<1>5. CASE BuildFails
  BY <1>5, BuildFailsPreserves
<1> QED
  BY <1>1, <1>2, <1>3, <1>4, <1>5, ConfigPreserves, HomePreserves, NodeIDPreserves

LEMMA StartPreserves ==
    ASSUME LifeInvariant,
           \/ Start \/ MetricsServe \/ SwitchStarts \/ TrapSignal \/ Wait
           \/ SwitchRefuses \/ RefusalQuiets \/ RefusalCloses
           \/ Learn \/ Persist \/ Signal
    PROVE  LifeInvariant'
<1> USE DEF LifeInvariant, TypeOK, ConfigIsServed, MainAndSwitch, HandlerAndSwitch, Construction,
            OwedUntilSaved, FailureReleases, ServingListens, HomeIsOneStack, Up, home
<1>1. CASE Start
  BY <1>1 DEF Start
<1>2. CASE MetricsServe
  BY <1>2 DEF MetricsServe
<1>3. CASE SwitchStarts
  BY <1>3 DEF SwitchStarts
<1>4. CASE SwitchRefuses
  BY <1>4 DEF SwitchRefuses
<1>5. CASE TrapSignal
  BY <1>5 DEF TrapSignal, TrapPoint
<1>6. CASE Wait
  BY <1>6 DEF Wait
<1>7. CASE Learn
  BY <1>7 DEF Learn
<1>8. CASE Persist
  BY <1>8, PersistPreserves
<1>9. CASE Signal
  BY <1>9 DEF Signal
<1>10. CASE RefusalQuiets
  BY <1>10 DEF RefusalQuiets, stopMetrics
<1>11. CASE RefusalCloses
  BY <1>11 DEF RefusalCloses, closeTransport
<1> QED
  BY <1>1, <1>2, <1>3, <1>4, <1>5, <1>6, <1>7, <1>8, <1>9, <1>10, <1>11

LEMMA StopPreserves ==
    ASSUME LifeInvariant,
           \/ StopSaves \/ StopMetrics \/ StopSwitch
           \/ ReactorsStop \/ SwitchStops \/ StopReturns
    PROVE  LifeInvariant'
<1> USE DEF LifeInvariant, TypeOK, ConfigIsServed, MainAndSwitch, HandlerAndSwitch, Construction,
            OwedUntilSaved, FailureReleases, ServingListens, HomeIsOneStack, Up, home
<1>1. CASE StopSaves
  BY <1>1 DEF StopSaves, IsRunning, Save
<1>2. CASE StopMetrics
  BY <1>2 DEF StopMetrics, stopMetrics, Stacks
<1>3. CASE StopSwitch
  BY <1>3 DEF StopSwitch, IsRunning, closeTransport
<1>4. CASE ReactorsStop
  BY <1>4, ReactorsStopPreserves
<1>5. CASE SwitchStops
  BY <1>5 DEF SwitchStops, ReactorsStopped
<1>6. CASE StopReturns
  BY <1>6 DEF StopReturns, closeTransport
<1> QED
  BY <1>1, <1>2, <1>3, <1>4, <1>5, <1>6

LEMMA NextPreserves ==
    ASSUME LifeInvariant, [Next]_vars
    PROVE  LifeInvariant'
<1>1. CASE Killed \/ ExitFailure \/ WaitReturns \/ HandlerExits
  BY <1>1, GonePreserves DEF Killed, ExitFailure, WaitReturns, HandlerExits
<1>2. CASE UNCHANGED vars
  BY <1>2
     DEF vars, LifeInvariant, TypeOK, ConfigIsServed, MainAndSwitch, HandlerAndSwitch, Construction,
         OwedUntilSaved, FailureReleases, ServingListens, HomeIsOneStack, Up
<1> QED
  BY <1>1, <1>2, BuildPreserves, StartPreserves, StopPreserves DEF Next

\* Where main, the switch and the handler can be at once, and what each of
\* those states owes.
THEOREM LifeInvariantHolds == Spec => []LifeInvariant
<1>1. Init => LifeInvariant
  <2> SUFFICES ASSUME Init PROVE LifeInvariant
    OBVIOUS
  <2> USE DEF Init, Fresh
  <2>0. endpoint \in BOOLEAN /\ dirty \in BOOLEAN /\ owed \in BOOLEAN
    OBVIOUS
  <2>1. TypeOK
    BY <2>0 DEF TypeOK
  <2>2. MainAndSwitch /\ HandlerAndSwitch /\ OwedUntilSaved
    BY DEF MainAndSwitch, HandlerAndSwitch, OwedUntilSaved, Up
  <2>3. Construction
    BY DEF Construction, Up
  <2>4. FailureReleases /\ ServingListens /\ HomeIsOneStack /\ ConfigIsServed
    BY DEF FailureReleases, ServingListens, HomeIsOneStack, ConfigIsServed
  <2> QED
    BY <2>1, <2>2, <2>3, <2>4 DEF LifeInvariant
<1> QED
  BY <1>1, NextPreserves, PTL DEF Spec

\* FailureReleases: whatever step of construction fails, on either stack, the
\* path it takes is one that releases the socket if the socket is open; and when
\* the switch refuses to start, or Stop has returned, neither socket is left,
\* though the goroutine of the metrics server may come up late.
THEOREM FailuresRelease == Spec => []FailureReleases
<1>1. LifeInvariant => FailureReleases
  BY DEF LifeInvariant
<1> QED
  BY <1>1, LifeInvariantHolds, PTL

\* The transport is never closed under a switch that runs.
THEOREM ServingIsListening == Spec => []ServingListens
<1>1. LifeInvariant => ServingListens
  BY DEF LifeInvariant
<1> QED
  BY <1>1, LifeInvariantHolds, PTL

\* A home keeps to one stack, whichever the configurations named.
THEOREM OneStackHome == Spec => []HomeIsOneStack
<1>1. LifeInvariant => HomeIsOneStack
  BY DEF LifeInvariant
<1> QED
  BY <1>1, LifeInvariantHolds, PTL

\* A trapped signal loses nothing it found unsaved, wherever main ends it.
THEOREM ShutdownHasSaved == Spec => ShutdownSaves
<1>1. ASSUME LifeInvariant, Next, handler \notin {"none", "armed"}, main' = "down"
      PROVE  ~owed
  <2> USE DEF LifeInvariant, MainAndSwitch, HandlerAndSwitch, OwedUntilSaved, Up
  <2>1. CASE WaitReturns
    BY <1>1, <2>1 DEF WaitReturns
  <2>2. CASE HandlerExits
    BY <1>1, <2>2 DEF HandlerExits
  <2>3. Up
    BY <1>1
  <2>4. ~Killed /\ ~ExitFailure
    BY <1>1, <2>3 DEF Killed, ExitFailure
  <2>5. \/ WaitReturns \/ HandlerExits
    BY <1>1, <2>3, <2>4
       DEF Next, LoadOrGenConfig, WriteConfigFails, EditStack, RotateKey, process, NodeID,
           NodeIDFails, NewNode, BuildStep, Built, BuildFails, Start, MetricsServe, SwitchStarts,
           SwitchRefuses, RefusalQuiets, RefusalCloses, TrapSignal, Wait, Learn, Persist, Signal, StopSaves, StopMetrics,
           StopSwitch, ReactorsStop, SwitchStops, StopReturns
  <2> QED
    BY <2>1, <2>2, <2>5
<1>2. LifeInvariant /\ [Next]_vars =>
        [handler \notin {"none", "armed"} /\ main' = "down" => ~owed]_vars
  BY <1>1
<1> QED
  BY <1>2, LifeInvariantHolds, PTL DEF Spec, ShutdownSaves
=============================================================================
