------------------------- MODULE GumDisposableProofs -------------------------
(***************************************************************************)
(* What the operations of a disposable object do to its timers, for every  *)
(* counter.                                                                *)
(***************************************************************************)
EXTENDS GumDisposable, TLAPS

\* An object in order: of its type, and with the right timers.
Orderly(d) == d \in Disposable /\ TimersRight(d)

\* The three things _update_timer does.
LEMMA UpdateTimerCases ==
    ASSUME NEW d
    PROVE  /\ d.delete_later => UpdateTimer(d) = d
           /\ ~d.delete_later /\ d.keep_obj_counter > 0
                  => UpdateTimer(d) = RemoveSource(d)
           /\ ~d.delete_later /\ ~(d.keep_obj_counter > 0) /\ d.keep_obj_counter = 0
                  => UpdateTimer(d) = IF d.timeout THEN AddSource(d, "timer") ELSE d
           /\ ~d.delete_later /\ ~(d.keep_obj_counter > 0) /\ ~(d.keep_obj_counter = 0)
                  => UpdateTimer(d) = d
BY DEF UpdateTimer

\* A new object has its timer when it has a timeout.
LEMMA NewIsOrderly ==
    ASSUME NEW timeout \in BOOLEAN
    PROVE  /\ Orderly(NewDisposable(timeout))
           /\ NewDisposable(timeout).keep_obj_counter = 0
<1>1. PICK d : d = [keep_obj_counter |-> 0, timeout |-> FALSE,
                    timer_id |-> "none", delete_later |-> FALSE,
                    forgotten |-> FALSE]
    OBVIOUS
<1>2. /\ d \in Disposable
      /\ d.keep_obj_counter = 0
      /\ ~d.timeout
      /\ d.timer_id = "none"
      /\ ~d.delete_later
      /\ ~d.forgotten
    BY <1>1 DEF Disposable
<1>3. NewDisposable(timeout) = SetTimeout(d, timeout)
    BY <1>1 DEF NewDisposable
<1>4. CASE d.timeout = timeout
    BY <1>2, <1>3, <1>4 DEF SetTimeout, Orderly, TimersRight
<1>5. CASE d.timeout # timeout
    <2> DEFINE c == [d EXCEPT !.timeout = timeout]
    <2>1. timeout
        BY <1>2, <1>5 DEF Disposable
    <2>2. /\ c \in Disposable
          /\ c.timeout
          /\ c.keep_obj_counter = 0
          /\ c.timer_id = "none"
          /\ ~c.delete_later
          /\ ~c.forgotten
        BY <1>2, <2>1 DEF Disposable
    <2>3. SetTimeout(d, timeout) = UpdateTimer(c)
        BY <1>5 DEF SetTimeout
    <2>4. ~(c.keep_obj_counter > 0)
        BY <2>2
    <2>5. UpdateTimer(c) = AddSource(c, "timer")
        BY <2>2, <2>4, UpdateTimerCases
    <2> HIDE DEF c
    <2>6. AddSource(c, "timer") = [c EXCEPT !.timer_id = "timer",
                                            !.forgotten = FALSE]
        BY <2>2 DEF AddSource
    <2>7. PICK f : f = [c EXCEPT !.timer_id = "timer", !.forgotten = FALSE]
        OBVIOUS
    <2>8. /\ f \in Disposable
          /\ f.timeout
          /\ f.keep_obj_counter = 0
          /\ f.timer_id = "timer"
          /\ ~f.delete_later
          /\ ~f.forgotten
        BY <2>2, <2>7 DEF Disposable
    <2>9. NewDisposable(timeout) = f
        BY <1>3, <2>3, <2>5, <2>6, <2>7
    <2> QED BY <2>8, <2>9 DEF Orderly, TimersRight
<1> QED BY <1>4, <1>5

\* A keep stops the timer and counts.
LEMMA KeepIsOrderly ==
    ASSUME NEW d, Orderly(d)
    PROVE  /\ Orderly(Keep(d))
           /\ Keep(d).keep_obj_counter = d.keep_obj_counter + 1
           /\ Keep(d).delete_later = d.delete_later
<1> DEFINE c == [d EXCEPT !.keep_obj_counter = @ + 1]
<1>1. Keep(d) = UpdateTimer(c)
    BY DEF Keep, SetAutoDispose
<1>2. /\ c \in Disposable
      /\ c.keep_obj_counter = d.keep_obj_counter + 1
      /\ c.keep_obj_counter > 0
      /\ c.delete_later = d.delete_later
      /\ c.timer_id = d.timer_id
      /\ c.forgotten = d.forgotten
    BY DEF Orderly, Disposable
<1>3. CASE d.delete_later
    <2>1. Keep(d) = c
        BY <1>1, <1>2, <1>3, UpdateTimerCases
    <2> HIDE DEF c
    <2> QED BY <2>1, <1>2, <1>3 DEF Orderly, Disposable, TimersRight
<1>4. CASE ~d.delete_later
    <2>1. Keep(d) = RemoveSource(c)
        BY <1>1, <1>2, <1>4, UpdateTimerCases
    <2> HIDE DEF c
    <2> QED BY <2>1, <1>2, <1>4 DEF Orderly, Disposable, TimersRight, RemoveSource
<1> QED BY <1>3, <1>4

\* A release counts down to zero, and starts the timer when it gets there.
LEMMA ReleaseIsOrderly ==
    ASSUME NEW d, Orderly(d)
    PROVE  /\ Orderly(Release(d))
           /\ Release(d).keep_obj_counter =
                 IF d.keep_obj_counter = 0 THEN 0 ELSE d.keep_obj_counter - 1
           /\ Release(d).delete_later = d.delete_later
<1> DEFINE c == [d EXCEPT !.keep_obj_counter = @ - 1]
<1>1. CASE d.keep_obj_counter = 0
    BY <1>1 DEF Release, SetAutoDispose
<1>2. CASE d.keep_obj_counter # 0
    <2>1. Release(d) = UpdateTimer(c)
        BY <1>2 DEF Release, SetAutoDispose
    <2>2. /\ c \in Disposable
          /\ c.keep_obj_counter = d.keep_obj_counter - 1
          /\ c.keep_obj_counter \in Nat
          /\ c.delete_later = d.delete_later
          /\ c.timer_id = d.timer_id
          /\ c.timeout = d.timeout
          /\ c.forgotten = d.forgotten
        BY <1>2 DEF Orderly, Disposable
    <2>3. CASE d.delete_later
        <3>1. Release(d) = c
            BY <2>1, <2>2, <2>3, UpdateTimerCases
        <3> HIDE DEF c
        <3> QED BY <3>1, <1>2, <2>2, <2>3 DEF Orderly, Disposable, TimersRight
    <2>4. CASE ~d.delete_later
        <3>1. d.timer_id = "none" /\ ~d.forgotten
            BY <1>2, <2>4 DEF Orderly, Disposable, TimersRight
        <3>2. CASE c.keep_obj_counter > 0
            <4>1. Release(d) = RemoveSource(c)
                BY <2>1, <2>2, <2>4, <3>2, UpdateTimerCases
            <4> HIDE DEF c
            <4> QED BY <4>1, <1>2, <2>2, <2>4, <3>1, <3>2
                    DEF Orderly, Disposable, TimersRight, RemoveSource
        <3>3. CASE ~(c.keep_obj_counter > 0)
            <4>1. c.keep_obj_counter = 0
                <5>1. \A n \in Nat : n > 0 \/ n = 0
                    OBVIOUS
                <5> HIDE DEF c
                <5> QED BY <5>1, <2>2, <3>3
            <4>2. Release(d) = IF c.timeout THEN AddSource(c, "timer") ELSE c
                BY <2>1, <2>2, <2>4, <3>3, <4>1, UpdateTimerCases
            <4>3. CASE c.timeout
                <5>1. Release(d) = [c EXCEPT !.timer_id = "timer",
                                             !.forgotten = FALSE]
                    BY <4>2, <4>3, <2>2, <3>1 DEF AddSource
                <5> HIDE DEF c
                <5> QED BY <5>1, <1>2, <2>2, <2>4, <3>1, <4>1, <4>3
                        DEF Orderly, Disposable, TimersRight
            <4>4. CASE ~c.timeout
                <5>1. Release(d) = c
                    BY <4>2, <4>4
                <5> HIDE DEF c
                <5> QED BY <5>1, <1>2, <2>2, <2>4, <3>1, <4>1, <4>4
                        DEF Orderly, Disposable, TimersRight
            <4> QED BY <4>3, <4>4
        <3> QED BY <3>2, <3>3
    <2> QED BY <2>3, <2>4
<1> QED BY <1>1, <1>2

\* The idle source of delete_later takes the place of the timer.
LEMMA DeleteLaterIsOrderly ==
    ASSUME NEW d, Orderly(d)
    PROVE  Orderly(DeleteLater(d))
BY DEF Orderly, Disposable, TimersRight, DeleteLater, AddSource, RemoveSource

\* A request that is served between a keep and a release leaves the object as
\* it found it, with its timer started anew.
THEOREM ServedIsOrderly ==
    ASSUME NEW d, Orderly(d)
    PROVE  /\ Orderly(Served(d))
           /\ Served(d).keep_obj_counter = d.keep_obj_counter
           /\ Served(d).delete_later = d.delete_later
<1>1. d.keep_obj_counter \in Nat
    BY DEF Orderly, Disposable
<1>2. /\ Orderly(Keep(d))
      /\ Keep(d).keep_obj_counter = d.keep_obj_counter + 1
      /\ Keep(d).delete_later = d.delete_later
    BY KeepIsOrderly
<1> QED BY <1>1, <1>2, ReleaseIsOrderly DEF Served
=============================================================================
