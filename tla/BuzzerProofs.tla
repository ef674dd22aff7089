---------------------------- MODULE BuzzerProofs ----------------------------
(***************************************************************************)
(* Proofs about Buzzer, for any number of beeps, tones and faults.         *)
(***************************************************************************)
EXTENDS Buzzer, TLAPS

-----------------------------------------------------------------------------
(* Types, in four parts. *)

Flags == pi \in BOOLEAN /\ works \in BOOLEAN /\ silent \in BOOLEAN

Counts ==
  /\ made \in 0..MaxBeeps
  /\ faults \in 0..MaxFaults
  /\ calls \in Nat
  /\ ticket \in [Beep -> 0..calls]
  /\ latest \in 0..calls

Lateness == late \in [Beep -> Nat]

Control ==
  /\ phase \in {"up", "clean", "down"}
  /\ pwm \in Beep \cup {NoBeep}
  /\ owner \in Beep \cup {NoBeep}
  /\ waiters \in Seq(Beep)
  /\ place \in [Beep -> Place]
  /\ left \in [Beep -> Nat]
  /\ \A b \in Beep : left[b] = 0 <=> place[b] = "idle"

\* A tone less to play: the beep pauses or its task ends.
LEMMA ToneOverTypes ==
  ASSUME TypeOK, NEW b \in Beep, place[b] # "idle", ToneOver(b)
  PROVE  /\ place' \in [Beep -> Place]
         /\ left' \in [Beep -> Nat]
         /\ \A c \in Beep : left'[c] = 0 <=> place'[c] = "idle"
<1>1. left' = [left EXCEPT ![b] = @ - 1] /\ left[b] \in Nat \ {0}
  BY DEF TypeOK, ToneOver
<1>2. /\ place' = [place EXCEPT ![b] = IF left[b] = 1 THEN "idle" ELSE "pause"]
      /\ {"idle", "pause"} \subseteq Place
  BY DEF ToneOver, Place
<1>3. place' \in [Beep -> Place] /\ left' \in [Beep -> Nat]
  BY <1>1, <1>2 DEF TypeOK
<1>4. ASSUME NEW c \in Beep PROVE left'[c] = 0 <=> place'[c] = "idle"
  <2>1. CASE c = b
    BY <1>1, <1>2, <2>1 DEF TypeOK
  <2>2. CASE c # b
    BY <1>1, <1>2, <2>2 DEF TypeOK
  <2> QED  BY <2>1, <2>2
<1> QED  BY <1>3, <1>4

\* A tone that begins in silent mode is counted.
LEMMA PlayToneTypes ==
  ASSUME TypeOK, NEW b \in Beep, PlayTone(b)
  PROVE  late' \in [Beep -> Nat]
<1>1. late \in [Beep -> Nat]
  BY DEF TypeOK
<1>2. late' = late \/ late' = [late EXCEPT ![b] = @ + 1]
  BY DEF PlayTone
<1> QED  BY <1>1, <1>2

\* Every step keeps the types.
LEMMA TypingNext ==
  TypeOK /\ [Next]_vars => TypeOK'
<1>1. SUFFICES ASSUME TypeOK, [Next]_vars
              PROVE  TypeOK'
  OBVIOUS
<1> USE BeepAssumption
<1>2. ASSUME NEW daemon \in BOOLEAN, Start(daemon)
      PROVE  TypeOK'
  BY <1>2, <1>1 DEF Start, NoTasks, TypeOK, Place
<1>3. ASSUME NEW b \in Beep, NEW tones \in Tones, StartBeep(b, tones)
      PROVE  TypeOK'
  BY <1>3, <1>1 DEF StartBeep, TypeOK, Place, lock, history
<1>4. ASSUME NEW b \in Beep, PauseOver(b)
      PROVE  TypeOK'
  BY <1>4, <1>1 DEF PauseOver, TypeOK, Place, lock, history
<1>5. ASSUME NEW b \in Beep, SkipTone(b)
      PROVE  TypeOK'
  BY <1>5, <1>1 DEF SkipTone, ToneOver, TypeOK, Place, lock, history
<1>6. ASSUME NEW b \in Beep, TakeLock(b)
      PROVE  TypeOK'
  <2>1. Flags'
    BY <1>1, <1>6 DEF Flags, TakeLock, TypeOK
  <2>2. Counts'
    <3>1. /\ UNCHANGED <<faults, made>> /\ calls' = calls + 1
          /\ ticket' = [ticket EXCEPT ![b] = calls + 1]
      BY <1>6 DEF TakeLock, AsksForLock, PlayTone, ToneOver
    <3>2. ticket' \in [Beep -> 0..calls'] /\ calls' \in Nat
      BY <1>1, <3>1 DEF TypeOK
    <3>3. latest' \in {latest, ticket'[b]}
      BY <1>6 DEF TakeLock, PlayTone
    <3>4. latest' \in 0..calls'
      BY <1>1, <3>1, <3>2, <3>3 DEF TypeOK
    <3>5. QED
      BY <1>1, <3>1, <3>2, <3>4 DEF Counts, TypeOK
  <2>3. Control'
    <3>1. /\ phase' = phase /\ waiters' \in Seq(Beep) /\ place[b] # "idle"
      BY <1>1, <1>6 DEF TakeLock, AsksForLock, LockIsFree
    <3>2. CASE pi /\ works
      BY <1>1, <1>6, <3>1, <3>2
      DEF Control, TakeLock, PlayTone, TypeOK, Place
    <3>3. CASE ~pi \/ ~works
      <4>1. owner' = NoBeep /\ pwm' = pwm /\ ToneOver(b)
        BY <1>6, <3>3 DEF TakeLock, PlayTone
      <4>2. QED
        BY <1>1, <3>1, <4>1, ToneOverTypes DEF Control, TypeOK
    <3>4. QED
      BY <3>2, <3>3
  <2>4. Lateness'
    BY <1>1, <1>6, PlayToneTypes DEF Lateness, TakeLock
  <2>5. QED
    BY <2>1, <2>2, <2>3, <2>4 DEF TypeOK, Flags, Counts, Lateness, Control
<1>7. ASSUME NEW b \in Beep, WaitForLock(b)
      PROVE  TypeOK'
  <2>1. Flags'
    BY <1>1, <1>7 DEF Flags, WaitForLock, TypeOK
  <2>2. Counts'
    BY <1>1, <1>7 DEF Counts, WaitForLock, AsksForLock, TypeOK
  <2>3. Control'
    <3>1. /\ place[b] = "call" /\ "wait" \in Place
          /\ place' = [place EXCEPT ![b] = "wait"] /\ left' = left
          /\ waiters' = Append(waiters, b)
      BY <1>7 DEF WaitForLock, AsksForLock, Place
    <3>2. place' \in [Beep -> Place] /\ waiters' \in Seq(Beep)
      BY <1>1, <3>1 DEF TypeOK
    <3>3. \A c \in Beep : left'[c] = 0 <=> place'[c] = "idle"
      BY <1>1, <3>1 DEF TypeOK
    <3>4. QED
      BY <1>1, <1>7, <3>1, <3>2, <3>3 DEF Control, WaitForLock, TypeOK
  <2>4. Lateness'
    BY <1>1, <1>7 DEF Lateness, WaitForLock, TypeOK
  <2>5. QED
    BY <2>1, <2>2, <2>3, <2>4 DEF TypeOK, Flags, Counts, Lateness, Control
<1>8. ASSUME NEW b \in Beep, LockPassedOn(b)
      PROVE  TypeOK'
  <2>1. Flags'
    BY <1>1, <1>8 DEF Flags, LockPassedOn, TypeOK
  <2>2. Counts'
    <3>1. /\ UNCHANGED <<calls, ticket, faults, made>>
          /\ latest' \in {latest, ticket[b]}
      BY <1>8 DEF LockPassedOn, PlayTone, ToneOver
    <3>2. QED
      BY <1>1, <3>1 DEF Counts, TypeOK
  <2>3. Control'
    <3>1. /\ phase' = phase /\ waiters' \in Seq(Beep) /\ place[b] # "idle"
      BY <1>1, <1>8 DEF LockPassedOn, Running, TypeOK
    <3>2. CASE pi /\ works
      BY <1>1, <1>8, <3>1, <3>2
      DEF Control, LockPassedOn, PlayTone, TypeOK, Place
    <3>3. CASE ~pi \/ ~works
      <4>1. owner' = NoBeep /\ pwm' = pwm /\ ToneOver(b)
        BY <1>8, <3>3 DEF LockPassedOn, PlayTone
      <4>2. QED
        BY <1>1, <3>1, <4>1, ToneOverTypes DEF Control, TypeOK
    <3>4. QED
      BY <3>2, <3>3
  <2>4. Lateness'
    BY <1>1, <1>8, PlayToneTypes DEF Lateness, LockPassedOn
  <2>5. QED
    BY <2>1, <2>2, <2>3, <2>4 DEF TypeOK, Flags, Counts, Lateness, Control
<1>9. ASSUME NEW b \in Beep, EndTone(b)
      PROVE  TypeOK'
  BY <1>9, <1>1 DEF EndTone, ToneOver, TypeOK, Place, history
<1>10. CASE SetSilent
  BY <1>10, <1>1 DEF SetSilent, TypeOK, lock, tasks, history
<1>11. CASE Cleanup
  BY <1>11, <1>1 DEF Cleanup, TypeOK, lock, tasks, history
<1>12. CASE Exit
  BY <1>12, <1>1 DEF Exit, NoTasks, TypeOK, Place, history
<1>13. CASE Killed
  <2>1. Flags'
    BY <1>1, <1>13 DEF Flags, Killed, TypeOK
  <2>2. Counts'
    BY <1>1, <1>13 DEF Counts, Killed, TypeOK, history
  <2>3. Control'
    BY <1>1, <1>13 DEF Control, Killed, NoTasks, TypeOK, Place
  <2>4. Lateness'
    BY <1>1, <1>13 DEF Lateness, Killed, history, TypeOK
  <2>5. QED
    BY <2>1, <2>2, <2>3, <2>4 DEF TypeOK, Flags, Counts, Lateness, Control
<1>14. CASE ConnectionFails
  <2>1. Flags'
    BY <1>1, <1>14 DEF Flags, ConnectionFails, TypeOK
  <2>2. Counts'
    BY <1>1, <1>14 DEF Counts, ConnectionFails, TypeOK, tasks, history
  <2>3. Control'
    BY <1>1, <1>14 DEF Control, ConnectionFails, TypeOK, lock, tasks
  <2>4. Lateness'
    BY <1>1, <1>14 DEF Lateness, ConnectionFails, history, TypeOK
  <2>5. QED
    BY <2>1, <2>2, <2>3, <2>4 DEF TypeOK, Flags, Counts, Lateness, Control
<1>15. CASE UNCHANGED vars
  BY <1>15, <1>1 DEF vars, TypeOK, lock, tasks, history
<1>16. QED
  BY <1>1, <1>2, <1>3, <1>4, <1>5, <1>6, <1>7, <1>8, <1>9, <1>10, <1>11,
     <1>12, <1>13, <1>14, <1>15
  DEF Next, Step

\* The initial values have their types.
LEMMA TypingInit == Init => TypeOK
<1>1. Init => Flags
  BY DEF Init, Flags
<1>2. Init => Counts
  BY BeepAssumption DEF Init, Counts
<1>3. Init => Control
  BY DEF Init, Control, Place
<1>4. Init => Lateness
  BY DEF Init, Lateness
<1>5. QED
  BY <1>1, <1>2, <1>3, <1>4 DEF TypeOK, Flags, Counts, Lateness, Control

\* Every variable keeps its type; a task has tones left exactly while it is not
\* through (tone, beep_incoming ... beep_alarm).
THEOREM TypesHold == Spec => []TypeOK
<1>1. Init => TypeOK
  BY TypingInit
<1>2. QED
  BY <1>1, TypingNext, PTL DEF Spec

-----------------------------------------------------------------------------
(* One tone at a time. *)

\* OneTone with what makes it inductive: who sounds has the lock, also after
\* cleanup(), and a program that is up and has its daemon has its object for it.
OneHolder ==
  /\ OneTone
  /\ \A b \in Beep : place[b] = "sound" => owner = b
  /\ owner # NoBeep => place[owner] = "sound"
  /\ phase = "up" /\ works => pi
  /\ phase # "up" => ~pi
  /\ phase = "clean" /\ works => pwm = NoBeep

\* The PWM is only started by who got the lock, and is off when the lock goes on.
LEMMA OneHolderNext ==
  TypeOK /\ OneHolder /\ [Next]_vars => OneHolder'
<1>1. SUFFICES ASSUME TypeOK, OneHolder, [Next]_vars
              PROVE  OneHolder'
  OBVIOUS
<1> USE BeepAssumption
<1>2. ASSUME NEW daemon \in BOOLEAN, Start(daemon)
      PROVE  OneHolder'
  BY <1>2, <1>1 DEF Start, NoTasks, OneHolder, OneTone
<1>3. ASSUME NEW b \in Beep, NEW tones \in Tones, StartBeep(b, tones)
      PROVE  OneHolder'
  BY <1>3, <1>1 DEF StartBeep, OneHolder, OneTone, lock
<1>4. ASSUME NEW b \in Beep, PauseOver(b)
      PROVE  OneHolder'
  BY <1>4, <1>1 DEF PauseOver, OneHolder, OneTone, lock
<1>5. ASSUME NEW b \in Beep, SkipTone(b)
      PROVE  OneHolder'
  BY <1>5, <1>1 DEF SkipTone, ToneOver, OneHolder, OneTone, lock
<1>6. ASSUME NEW b \in Beep, TakeLock(b)
      PROVE  OneHolder'
  BY <1>6, <1>1 DEF TakeLock, LockIsFree, PlayTone, ToneOver, OneHolder, OneTone,
    TypeOK
<1>7. ASSUME NEW b \in Beep, WaitForLock(b)
      PROVE  OneHolder'
  BY <1>7, <1>1 DEF WaitForLock, AsksForLock, OneHolder, OneTone
<1>8. ASSUME NEW b \in Beep, LockPassedOn(b)
      PROVE  OneHolder'
  BY <1>8, <1>1 DEF LockPassedOn, PlayTone, ToneOver, OneHolder, OneTone, TypeOK
<1>9. ASSUME NEW b \in Beep, EndTone(b)
      PROVE  OneHolder'
  BY <1>9, <1>1 DEF EndTone, ToneOver, OneHolder, OneTone, TypeOK
<1>10. CASE SetSilent
  BY <1>10, <1>1 DEF SetSilent, OneHolder, OneTone, lock, tasks
<1>11. CASE Cleanup
  BY <1>11, <1>1 DEF Cleanup, OneHolder, OneTone, lock, tasks
<1>12. CASE Exit
  BY <1>12, <1>1 DEF Exit, NoTasks, OneHolder, OneTone
<1>13. CASE Killed
  BY <1>13, <1>1 DEF Killed, NoTasks, OneHolder, OneTone
<1>14. CASE ConnectionFails
  BY <1>14, <1>1 DEF ConnectionFails, OneHolder, OneTone, lock, tasks
<1>15. CASE UNCHANGED vars
  BY <1>15, <1>1 DEF vars, OneHolder, OneTone, lock, tasks
<1>16. QED
  BY <1>1, <1>2, <1>3, <1>4, <1>5, <1>6, <1>7, <1>8, <1>9, <1>10, <1>11,
     <1>12, <1>13, <1>14, <1>15
  DEF Next, Step

\* OneTone holds throughout: the lock keeps the tones apart, and neither a crash
\* nor a cleanup leaves a tone on the pin for a program that has its daemon.
THEOREM OneToneHolds == Spec => []OneTone
<1>1. Init => TypeOK /\ OneHolder
  BY TypingInit, BeepAssumption DEF Init, OneHolder, OneTone
<1>2. OneHolder => OneTone
  BY DEF OneHolder
<1>3. QED
  BY <1>1, <1>2, TypingNext, OneHolderNext, PTL DEF Spec

-----------------------------------------------------------------------------
(* The order of the tones. *)

\* Those who wait for the lock stand in the order of their numbers, all of them
\* later than the tone on the pin.
InLine ==
  /\ \A i \in 1..Len(waiters) :
       /\ place[waiters[i]] = "wait"
       /\ latest < ticket[waiters[i]]
       /\ ticket[waiters[i]] <= calls
  /\ \A i, j \in 1..Len(waiters) :
       i < j => ticket[waiters[i]] < ticket[waiters[j]]

\* Who waits queues behind all others, and who gets the lock leaves at the front.
LEMMA InLineNext ==
  TypeOK /\ InLine /\ [Next]_vars => InLine'
<1>1. SUFFICES ASSUME TypeOK, InLine, [Next]_vars
              PROVE  InLine'
  OBVIOUS
<1> USE BeepAssumption
<1>2. ASSUME NEW daemon \in BOOLEAN, Start(daemon)
      PROVE  InLine'
  BY <1>2, <1>1 DEF Start, NoTasks, InLine
<1>3. ASSUME NEW b \in Beep, NEW tones \in Tones, StartBeep(b, tones)
      PROVE  InLine'
  BY <1>3, <1>1 DEF StartBeep, InLine, lock, history
<1>4. ASSUME NEW b \in Beep, PauseOver(b)
      PROVE  InLine'
  BY <1>4, <1>1 DEF PauseOver, InLine, lock, history
<1>5. ASSUME NEW b \in Beep, SkipTone(b)
      PROVE  InLine'
  BY <1>5, <1>1 DEF SkipTone, ToneOver, InLine, lock, history
<1>6. ASSUME NEW b \in Beep, TakeLock(b)
      PROVE  InLine'
  BY <1>6, <1>1 DEF TakeLock, LockIsFree, InLine
<1>7. ASSUME NEW b \in Beep, WaitForLock(b)
      PROVE  InLine'
  <2>1. waiters \in Seq(Beep) /\ Len(waiters) \in Nat
    BY <1>1 DEF TypeOK
  <2>2. /\ Len(waiters') = Len(waiters) + 1
        /\ \A i \in 1..Len(waiters) : waiters'[i] = waiters[i]
        /\ waiters'[Len(waiters) + 1] = b
    BY <1>7, <2>1 DEF WaitForLock
  <2>3. \A i \in 1..Len(waiters) : waiters[i] \in Beep /\ waiters[i] # b
    BY <1>1, <1>7, <2>1 DEF WaitForLock, AsksForLock, InLine
  <2>4. /\ latest' = latest /\ calls' = calls + 1
        /\ calls \in Nat /\ latest \in 0..calls
        /\ place' = [place EXCEPT ![b] = "wait"] /\ place \in [Beep -> Place]
        /\ ticket' = [ticket EXCEPT ![b] = calls + 1]
        /\ ticket \in [Beep -> 0..calls]
    BY <1>1, <1>7 DEF WaitForLock, AsksForLock, TypeOK
  <2>5. ticket'[b] = calls + 1 /\ place'[b] = "wait"
    BY <2>4
  <2>6. \A i \in 1..Len(waiters) : /\ ticket'[waiters'[i]] = ticket[waiters[i]]
                                  /\ place'[waiters'[i]] = place[waiters[i]]
                                  /\ ticket[waiters[i]] <= calls
                                  /\ ticket[waiters[i]] \in Nat
    BY <2>2, <2>3, <2>4
  <2>7. \A i \in 1..Len(waiters') : /\ place'[waiters'[i]] = "wait"
                                   /\ latest' < ticket'[waiters'[i]]
                                   /\ ticket'[waiters'[i]] <= calls'
    <3>1. TAKE i \in 1..Len(waiters')
    <3>2. CASE i \in 1..Len(waiters)
      <4>1. place[waiters[i]] = "wait" /\ latest < ticket[waiters[i]]
        BY <1>1, <3>2 DEF InLine
      <4>2. QED
        BY <2>4, <2>6, <3>2, <4>1
    <3>3. CASE i = Len(waiters) + 1
      BY <2>2, <2>4, <2>5, <3>3
    <3>4. QED
      BY <2>1, <2>2, <3>1, <3>2, <3>3
  <2>8. \A i, j \in 1..Len(waiters') :
           i < j => ticket'[waiters'[i]] < ticket'[waiters'[j]]
    <3>1. SUFFICES ASSUME NEW i \in 1..Len(waiters'), NEW j \in 1..Len(waiters'),
                          i < j
                   PROVE  ticket'[waiters'[i]] < ticket'[waiters'[j]]
      OBVIOUS
    <3>2. i \in 1..Len(waiters)
      BY <2>1, <2>2, <3>1
    <3>3. CASE j \in 1..Len(waiters)
      BY <1>1, <2>6, <3>1, <3>2, <3>3 DEF InLine
    <3>4. CASE j = Len(waiters) + 1
      BY <2>2, <2>4, <2>5, <2>6, <3>2, <3>4
    <3>5. QED
      BY <2>1, <2>2, <3>1, <3>3, <3>4
  <2>9. QED
    BY <2>7, <2>8 DEF InLine
<1>8. ASSUME NEW b \in Beep, LockPassedOn(b)
      PROVE  InLine'
  <2>1. /\ waiters \in Seq(Beep) /\ waiters # <<>> /\ waiters' = Tail(waiters)
        /\ Head(waiters) = b /\ ticket' = ticket /\ calls' = calls
    BY <1>1, <1>8 DEF LockPassedOn, TypeOK
  <2>2. /\ Len(waiters) \in Nat /\ Len(waiters) # 0 /\ b = waiters[1]
        /\ Len(waiters') = Len(waiters) - 1
        /\ \A i \in 1..Len(waiters') : waiters'[i] = waiters[i + 1]
    BY <2>1
  <2>a. \A i \in 1..Len(waiters') : i + 1 \in 1..Len(waiters) /\ 1 < i + 1
    BY <2>2
  <2>b. /\ 1 \in 1..Len(waiters)
        /\ \A i \in 1..Len(waiters) : waiters[i] \in Beep
        /\ \A c \in Beep : ticket[c] \in Nat
    <3>1. 1 \in 1..Len(waiters)
      BY <2>2
    <3>2. \A i \in 1..Len(waiters) : waiters[i] \in Beep
      BY <2>1
    <3>3. \A c \in Beep : ticket[c] \in Nat
      BY <1>1 DEF TypeOK
    <3>4. QED
      BY <3>1, <3>2, <3>3
  <2>3. ASSUME NEW i \in 1..Len(waiters')
        PROVE  waiters'[i] # b
    <3>1. ticket[waiters[1]] < ticket[waiters[i + 1]]
      BY <1>1, <2>a, <2>b DEF InLine
    <3>2. QED
      BY <2>2, <2>a, <2>b, <3>1
  <2>4. \A i \in 1..Len(waiters') : place'[waiters'[i]] = "wait"
    <3>1. \A c \in Beep : c # b => place'[c] = place[c]
      BY <1>1, <1>8 DEF LockPassedOn, PlayTone, ToneOver, TypeOK
    <3>2. QED
      BY <1>1, <2>2, <2>a, <2>b, <2>3, <3>1 DEF InLine
  <2>5. latest' = latest \/ latest' = ticket[b]
    BY <1>8, <2>1 DEF LockPassedOn, PlayTone
  <2>6. \A i \in 1..Len(waiters') : /\ latest' < ticket[waiters'[i]]
                                   /\ ticket[waiters'[i]] <= calls'
    BY <1>1, <2>1, <2>2, <2>5 DEF InLine
  <2>7. \A i, j \in 1..Len(waiters') :
           i < j => ticket[waiters'[i]] < ticket[waiters'[j]]
    <3>1. SUFFICES ASSUME NEW i \in 1..Len(waiters'), NEW j \in 1..Len(waiters'),
                          i < j
                   PROVE  ticket[waiters'[i]] < ticket[waiters'[j]]
      OBVIOUS
    <3>2. /\ i + 1 \in 1..Len(waiters) /\ j + 1 \in 1..Len(waiters)
          /\ i + 1 < j + 1
      BY <2>a, <3>1
    <3>3. ticket[waiters[i + 1]] < ticket[waiters[j + 1]]
      BY <1>1, <3>2 DEF InLine
    <3>4. QED
      BY <2>2, <3>3
  <2>8. QED
    BY <2>1, <2>4, <2>6, <2>7 DEF InLine
<1>9. ASSUME NEW b \in Beep, EndTone(b)
      PROVE  InLine'
  BY <1>9, <1>1 DEF EndTone, ToneOver, InLine, Place, history
<1>10. CASE SetSilent
  BY <1>10, <1>1 DEF SetSilent, InLine, lock, tasks, history
<1>11. CASE Cleanup
  BY <1>11, <1>1 DEF Cleanup, InLine, lock, tasks, history
<1>12. CASE Exit
  BY <1>12, <1>1 DEF Exit, NoTasks, InLine
<1>13. CASE Killed
  BY <1>13, <1>1 DEF Killed, NoTasks, InLine
<1>14. CASE ConnectionFails
  BY <1>14, <1>1 DEF ConnectionFails, InLine, lock, tasks, history
<1>15. CASE UNCHANGED vars
  BY <1>15, <1>1 DEF vars, InLine, lock, tasks, history
<1>16. QED
  BY <1>1, <1>2, <1>3, <1>4, <1>5, <1>6, <1>7, <1>8, <1>9, <1>10, <1>11,
     <1>12, <1>13, <1>14, <1>15
  DEF Next, Step

\* A tone starts with a number above those of all tones before it.
LEMMA OrderStep ==
  TypeOK /\ InLine /\ [Next]_vars => [latest' > latest \/ phase = "down"]_latest
<1>1. SUFFICES ASSUME TypeOK, InLine, Next, latest' # latest, phase # "down"
               PROVE  latest' > latest
  BY DEF vars, history
<1>2. \E b \in Beep : TakeLock(b) \/ LockPassedOn(b)
  BY <1>1
  DEF Next, Step, Start, StartBeep, PauseOver, SkipTone, WaitForLock, EndTone,
      SetSilent, Cleanup, Exit, Killed, ConnectionFails, history
<1>3. PICK b \in Beep : TakeLock(b) \/ LockPassedOn(b)
  BY <1>2
<1>4. CASE TakeLock(b)
  BY <1>1, <1>4 DEF TakeLock, AsksForLock, PlayTone, TypeOK
<1>5. CASE LockPassedOn(b)
  <2>1. waiters \in Seq(Beep) /\ waiters # <<>> /\ waiters[1] = b
    BY <1>1, <1>5 DEF LockPassedOn, TypeOK
  <2>2. latest < ticket[b]
    BY <1>1, <2>1 DEF InLine
  <2>3. QED
    BY <1>1, <1>5, <2>2 DEF LockPassedOn, PlayTone
<1>6. QED
  BY <1>3, <1>4, <1>5

\* PlayedInOrder holds of every step: no tone overtakes one that asked before it.
THEOREM OrderHolds == Spec => PlayedInOrder
<1>1. Init => TypeOK /\ InLine
  BY TypingInit DEF Init, InLine
<1>2. QED
  BY <1>1, TypingNext, InLineNext, OrderStep, PTL DEF Spec, PlayedInOrder

-----------------------------------------------------------------------------
(* Silent mode. *)

\* Who has had its late tone does not wait for the lock again.
Hushed ==
  silent => \A b \in Beep :
              /\ late[b] <= 1
              /\ place[b] = "wait" => late[b] = 0

\* Only a tone that waits for the lock can still begin in silent mode.
LEMMA HushedNext ==
  TypeOK /\ Hushed /\ [Next]_vars => Hushed'
<1>1. SUFFICES ASSUME TypeOK, Hushed, [Next]_vars
              PROVE  Hushed'
  OBVIOUS
<1> USE BeepAssumption
<1>2. ASSUME NEW daemon \in BOOLEAN, Start(daemon)
      PROVE  Hushed'
  BY <1>2 DEF Start, NoTasks, Hushed
<1>3. ASSUME NEW b \in Beep, NEW tones \in Tones, StartBeep(b, tones)
      PROVE  Hushed'
  BY <1>1, <1>3 DEF StartBeep, Hushed, TypeOK, history
<1>4. ASSUME NEW b \in Beep, PauseOver(b)
      PROVE  Hushed'
  BY <1>1, <1>4 DEF PauseOver, Hushed, TypeOK, history
<1>5. ASSUME NEW b \in Beep, SkipTone(b) \/ EndTone(b)
      PROVE  Hushed'
  BY <1>1, <1>5 DEF SkipTone, EndTone, ToneOver, Hushed, TypeOK, history
<1>6. ASSUME NEW b \in Beep, TakeLock(b) \/ WaitForLock(b)
      PROVE  Hushed'
  BY <1>6 DEF TakeLock, WaitForLock, AsksForLock, Hushed
<1>7. ASSUME NEW b \in Beep, LockPassedOn(b)
      PROVE  Hushed'
  <2>1. place[b] = "wait" /\ silent' = silent
    BY <1>7 DEF LockPassedOn
  <2>2. place'[b] # "wait" /\ \A c \in Beep \ {b} : place'[c] = place[c]
    BY <1>1, <1>7 DEF LockPassedOn, PlayTone, ToneOver, TypeOK
  <2>3. silent => /\ late'[b] \in {late[b], late[b] + 1}
                  /\ \A c \in Beep \ {b} : late'[c] = late[c]
    BY <1>1, <1>7 DEF LockPassedOn, PlayTone, TypeOK
  <2>4. ASSUME silent, NEW c \in Beep
        PROVE  late'[c] <= 1 /\ (place'[c] = "wait" => late'[c] = 0)
    <3>1. late[c] <= 1 /\ (place[c] = "wait" => late[c] = 0) /\ late[c] \in Nat
      BY <1>1, <2>4 DEF Hushed, TypeOK
    <3>2. CASE c = b
      BY <2>1, <2>2, <2>3, <2>4, <3>1, <3>2
    <3>3. CASE c # b
      BY <2>2, <2>3, <2>4, <3>1, <3>3
    <3> QED
      BY <3>2, <3>3
  <2>5. CASE silent
    BY <2>4, <2>5 DEF Hushed
  <2>6. CASE ~silent
    BY <2>1, <2>6 DEF Hushed
  <2> QED
    BY <2>5, <2>6
<1>8. CASE SetSilent
  <2>1. CASE silent
    BY <1>8, <2>1 DEF SetSilent, Hushed
  <2>2. CASE ~silent
    <3>1. \A b \in Beep : late'[b] = 0
      BY <1>8, <2>2 DEF SetSilent
    <3>2. QED
      BY <3>1 DEF Hushed
  <2> QED
    BY <2>1, <2>2
<1>9. CASE Cleanup \/ ConnectionFails
  BY <1>1, <1>9 DEF Cleanup, ConnectionFails, Hushed, tasks, history
<1>10. CASE Exit \/ Killed
  BY <1>1, <1>10 DEF Exit, Killed, NoTasks, Hushed, history
<1>11. CASE UNCHANGED vars
  BY <1>1, <1>11 DEF vars, Hushed, tasks, history
<1>12. QED
  BY <1>1, <1>2, <1>3, <1>4, <1>5, <1>6, <1>7, <1>8, <1>9, <1>10, <1>11
  DEF Next, Step

\* OneLateTone holds throughout: silent mode stops every beep after the tone it has
\* in flight.
THEOREM OneLateToneHolds == Spec => []OneLateTone
<1>1. Init => Hushed
  BY DEF Init, Hushed
<1>2. Hushed => OneLateTone
  BY DEF Hushed, OneLateTone
<1>3. QED
  BY <1>1, <1>2, TypingInit, TypingNext, HushedNext, PTL DEF Spec
=============================================================================
