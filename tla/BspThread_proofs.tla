-------------------------- MODULE BspThread_proofs --------------------------
(***************************************************************************)
(* Proofs about BspThread for every number of toggles of a ping and every  *)
(* number of expiries in one call of the main loop.                        *)
(***************************************************************************)
EXTENDS BspThread, SequenceTheorems, TLAPS

-----------------------------------------------------------------------------
(* What a context may have still to do: the accesses of one function, from *)
(* some point on.                                                          *)

Off1 == <<Led("connection", FALSE), Led("commissioning", FALSE), Stable("IDLE")>>
Off2 == <<Led("commissioning", FALSE), Stable("IDLE")>>
Off3 == <<Stable("IDLE")>>
Blink1 == <<<<"out", 0, 0>>, <<"invert", 0, 0>>, Stable("BONDING"), Start("leds")>>
Blink2 == <<<<"invert", 0, 0>>, Stable("BONDING"), Start("leds")>>
Blink3 == <<Stable("BONDING"), Start("leds")>>
Blink4 == <<Start("leds")>>
On1 == <<Led("connection", TRUE), Stable("CONNECTED")>>
On2 == <<Stable("CONNECTED")>>
ShowsIdle == {Off1, Off2, Off3}
ShowsBonding == {Blink1, Blink2, Blink3, Blink4}
ShowsConnected == {On1, On2}

SetsRole(i) == <<<<"connection", i, 0>>>>

Ping1 == <<<<"ping", 0, 0>>, <<"load", 0, 0>>, <<"decrement", 0, 0>>>>
Ping2 == <<<<"load", 0, 0>>, <<"decrement", 0, 0>>>>
Ping3 == <<<<"decrement", 0, 0>>>>
Ping4 == <<<<"toggle", 0, 0>>>>
Toggle1(on) == <<Led("connection", on), Led("commissioning", on), Start("ping")>>
Toggle2(on) == <<Led("commissioning", on), Start("ping")>>
ToggleOn1 == Toggle1(TRUE)
ToggleOff1 == Toggle1(FALSE)
ToggleOn2 == Toggle2(TRUE)
ToggleOff2 == Toggle2(FALSE)
Toggle3 == <<Start("ping")>>
Toggles == {Ping4, ToggleOn1, ToggleOff1, ToggleOn2, ToggleOff2, Toggle3}
Counts == {Ping2, Ping3}
End1 == <<Led("commissioning", FALSE), <<"restore", 0, 0>>>>
End2 == <<<<"restore", 0, 0>>>>
Ends == {End1, End2}

Shows == ShowsIdle \cup ShowsBonding \cup ShowsConnected
MainPrograms ==
    {<<>>, Ping1} \cup {SetsRole(i) : i \in Indications} \cup Shows \cup Counts \cup Toggles
RtcPrograms == {<<>>} \cup Shows \cup Counts \cup Toggles \cup Ends
Programs == MainPrograms \cup RtcPrograms

-----------------------------------------------------------------------------
(* What a program is about: the indication it shows, what it does for a    *)
(* ping, and the programs at which something is about to change.           *)

Show(p) ==
    IF p \in ShowsIdle THEN "IDLE" ELSE IF p \in ShowsBonding THEN "BONDING"
    ELSE IF p \in ShowsConnected THEN "CONNECTED" ELSE "none"

Phase(p) ==
    IF p = Ping1 THEN "asks" ELSE IF p = Ping2 THEN "loads" ELSE IF p = Ping3 THEN "counts"
    ELSE IF p \in Toggles THEN "toggles" ELSE IF p \in Ends THEN "ends" ELSE "none"

Stage(p) ==
    IF p \in {Off1, On1} THEN "first" ELSE IF p = Blink4 THEN "last"
    ELSE IF p \in {SetsRole("IDLE"), SetsRole("CONNECTED")} THEN "sets"
    ELSE IF p = End1 THEN "clears" ELSE "other"

Busy == {"loads", "counts", "toggles"}

-----------------------------------------------------------------------------
(* The inductive invariant.                                                *)

Main == todo["main"]
Rtc == todo["rtc"]

ProgramsOK ==
    /\ todo \in [Contexts -> Programs]
    /\ Main \in MainPrograms /\ Rtc \in RtcPrograms

\* Only with toggles left does the ping timer run, or its interrupt count.
PingsCount ==
    /\ "ping" \in timers \/ Phase(Rtc) \in Busy => m_indicating_ping > 0
    /\ Phase(Rtc) \in Busy => "ping" \notin timers
    /\ Phase(Rtc) = "counts" => read["rtc"] = m_indicating_ping

\* The toggle that the interrupt is about to count.
Pending == IF Phase(Rtc) \in {"loads", "counts"} THEN 1 ELSE 0

\* What main has counted down from: the expiries of this call are too few to
\* use up a ping that main has just begun.
MainCounts ==
    /\ Phase(Main) = "loads" => m_indicating_ping + expiries >= NumToggles + Pending
    /\ Phase(Main) = "counts" => read["main"] + expiries >= NumToggles
    /\ Phase(Main) = "toggles" => m_indicating_ping + expiries >= NumToggles - 1 + Pending

\* A ping that has toggles left is being served, or will be.
PingIsTimed ==
    m_indicating_ping > 0 =>
        "ping" \in timers \/ Phase(Rtc) \in Busy \/ Phase(Main) \in Busy \cup {"asks"}

PingInv == PingsCount /\ MainCounts /\ PingIsTimed

\* An indication that blinks is being shown, or will be.
BlinkIsTimed ==
    m_stable_state = "BONDING" =>
        "leds" \in timers \/ Show(Rtc) = "BONDING" \/ Show(Main) = "BONDING"

\* Main shows a role, and may not have made it the stable indication yet.
ShowingRole == Show(Main) # "none" /\ Stage(Main) # "last"

RoleKnown ==
    /\ Show(Main) # "none" => m_connection_state = Show(Main)
    /\ ~ShowingRole => m_stable_state = m_connection_state

\* The indications that the leds timer may still bring.
Old ==
    IF ~ShowingRole THEN {m_connection_state}
    ELSE IF m_connection_state = "BONDING" THEN Indications
    ELSE {"BONDING", m_connection_state}

RtcShows ==
    /\ Show(Rtc) # "none" => Show(Rtc) \in Old
    /\ Stage(Rtc) = "last" => m_stable_state = "BONDING"

LedsTimerKnows ==
    "leds" \in timers =>
        /\ m_stable_state \in Old
        /\ Stage(Main) = "sets" => m_stable_state = "BONDING"

RoleInv == RoleKnown /\ RtcShows /\ LedsTimerKnows

\* The connection LED is right, or somebody will still set it right.
LedIsShown ==
    \/ Stage(Main) = "first" \/ m_connection_state = "BONDING"
    \/ "leds" \in timers \/ m_indicating_ping > 0
    \/ Phase(Rtc) = "ends" \/ Stage(Rtc) = "first" \/ Show(Rtc) = "BONDING"
    \/ led.connection <=> m_connection_state = "CONNECTED"

\* So is the other one, which only a ping turns on.
PingLedEnds == led.commissioning => m_indicating_ping > 0 \/ Stage(Rtc) = "clears"

LedInv == LedIsShown /\ PingLedEnds

\* With time for the last blink the LEDs follow the role.
IInv ==
    /\ TypeOK /\ ProgramsOK /\ PingInv /\ BlinkIsTimed
    /\ Patient => RoleInv /\ LedInv

-----------------------------------------------------------------------------
(* The programs differ from one another: they can be named.             *)

Named(name) ==
    /\ name[<<>>] = "nothing" /\ name[Off1] = "Off1"
    /\ name[Off2] = "Off2" /\ name[Off3] = "Off3"
    /\ name[Blink1] = "Blink1" /\ name[Blink2] = "Blink2" /\ name[Blink3] = "Blink3"
    /\ name[Blink4] = "Blink4" /\ name[On1] = "On1" /\ name[On2] = "On2"
    /\ name[Ping1] = "Ping1" /\ name[Ping2] = "Ping2" /\ name[Ping3] = "Ping3"
    /\ name[Ping4] = "Ping4" /\ name[ToggleOn1] = "ToggleOn1"
    /\ name[ToggleOff1] = "ToggleOff1" /\ name[ToggleOn2] = "ToggleOn2"
    /\ name[ToggleOff2] = "ToggleOff2" /\ name[Toggle3] = "Toggle3" /\ name[End1] = "End1"
    /\ name[End2] = "End2" /\ name[SetsRole("IDLE")] = "SetsIdle"
    /\ name[SetsRole("BONDING")] = "SetsBonding"
    /\ name[SetsRole("CONNECTED")] = "SetsConnected"

\* There is such a function: no two programs are the same.
LEMMA ProgramsDiffer == \E name : Named(name)
<1> DEFINE name == [p \in Programs |->
      IF p = <<>> THEN "nothing"
      ELSE IF p = Off1 THEN "Off1"
      ELSE IF p = Off2 THEN "Off2"
      ELSE IF p = Off3 THEN "Off3"
      ELSE IF p = Blink1 THEN "Blink1"
      ELSE IF p = Blink2 THEN "Blink2"
      ELSE IF p = Blink3 THEN "Blink3"
      ELSE IF p = Blink4 THEN "Blink4"
      ELSE IF p = On1 THEN "On1"
      ELSE IF p = On2 THEN "On2"
      ELSE IF p = Ping1 THEN "Ping1"
      ELSE IF p = Ping2 THEN "Ping2"
      ELSE IF p = Ping3 THEN "Ping3"
      ELSE IF p = Ping4 THEN "Ping4"
      ELSE IF p = ToggleOn1 THEN "ToggleOn1"
      ELSE IF p = ToggleOff1 THEN "ToggleOff1"
      ELSE IF p = ToggleOn2 THEN "ToggleOn2"
      ELSE IF p = ToggleOff2 THEN "ToggleOff2"
      ELSE IF p = Toggle3 THEN "Toggle3"
      ELSE IF p = End1 THEN "End1"
      ELSE IF p = End2 THEN "End2"
      ELSE IF p = SetsRole("IDLE") THEN "SetsIdle"
      ELSE IF p = SetsRole("BONDING") THEN "SetsBonding"
      ELSE IF p = SetsRole("CONNECTED") THEN "SetsConnected"
      ELSE "other"]
<1>1. {<<>>, Off1, Off2, Off3, Blink1, Blink2, Blink3, Blink4, On1, On2, Ping1,
       Ping2, Ping3, Ping4, ToggleOn1, ToggleOff1, ToggleOn2, ToggleOff2,
       Toggle3, End1, End2, SetsRole("IDLE"), SetsRole("BONDING"),
       SetsRole("CONNECTED")} \subseteq Programs
  BY DEF Programs, MainPrograms, RtcPrograms, Shows, ShowsIdle, ShowsBonding,
         ShowsConnected, Counts, Toggles, Ends, Indications
<1>2. Named(name)
  <2> USE DEF Off1, Off2, Off3, Blink1, Blink2, Blink3, Blink4, On1, On2,
                Ping1, Ping2, Ping3, Ping4, Toggle1, Toggle2, Toggle3,
                ToggleOn1, ToggleOff1, ToggleOn2, ToggleOff2, End1, End2,
                SetsRole, Led, Stable, Start
  <2>1. Off1 \notin {<<>>}
    OBVIOUS
  <2>2. Off2 \notin {<<>>, Off1}
    OBVIOUS
  <2>3. Off3 \notin {<<>>, Off1, Off2}
    OBVIOUS
  <2>4. Blink1 \notin {<<>>, Off1, Off2, Off3}
    OBVIOUS
  <2>5. Blink2 \notin {<<>>, Off1, Off2, Off3, Blink1}
    OBVIOUS
  <2>6. Blink3 \notin {<<>>, Off1, Off2, Off3, Blink1, Blink2}
    OBVIOUS
  <2>7. Blink4 \notin {<<>>, Off1, Off2, Off3, Blink1, Blink2, Blink3}
    OBVIOUS
  <2>8. On1 \notin {<<>>, Off1, Off2, Off3, Blink1, Blink2, Blink3, Blink4}
    OBVIOUS
  <2>9. On2 \notin {<<>>, Off1, Off2, Off3, Blink1, Blink2, Blink3, Blink4,
                   On1}
    OBVIOUS
  <2>10. Ping1 \notin {<<>>, Off1, Off2, Off3, Blink1, Blink2, Blink3,
                      Blink4, On1, On2}
    OBVIOUS
  <2>11. Ping2 \notin {<<>>, Off1, Off2, Off3, Blink1, Blink2, Blink3,
                      Blink4, On1, On2, Ping1}
    OBVIOUS
  <2>12. Ping3 \notin {<<>>, Off1, Off2, Off3, Blink1, Blink2, Blink3,
                      Blink4, On1, On2, Ping1, Ping2}
    OBVIOUS
  <2>13. Ping4 \notin {<<>>, Off1, Off2, Off3, Blink1, Blink2, Blink3,
                      Blink4, On1, On2, Ping1, Ping2, Ping3}
    OBVIOUS
  <2>14. ToggleOn1 \notin {<<>>, Off1, Off2, Off3, Blink1, Blink2, Blink3,
                          Blink4, On1, On2, Ping1, Ping2, Ping3, Ping4}
    OBVIOUS
  <2>15. ToggleOff1 \notin {<<>>, Off1, Off2, Off3, Blink1, Blink2, Blink3,
                           Blink4, On1, On2, Ping1, Ping2, Ping3, Ping4,
                           ToggleOn1}
    OBVIOUS
  <2>16. ToggleOn2 \notin {<<>>, Off1, Off2, Off3, Blink1, Blink2, Blink3,
                          Blink4, On1, On2, Ping1, Ping2, Ping3, Ping4,
                          ToggleOn1, ToggleOff1}
    OBVIOUS
  <2>17. ToggleOff2 \notin {<<>>, Off1, Off2, Off3, Blink1, Blink2, Blink3,
                           Blink4, On1, On2, Ping1, Ping2, Ping3, Ping4,
                           ToggleOn1, ToggleOff1, ToggleOn2}
    OBVIOUS
  <2>18. Toggle3 \notin {<<>>, Off1, Off2, Off3, Blink1, Blink2, Blink3,
                        Blink4, On1, On2, Ping1, Ping2, Ping3, Ping4,
                        ToggleOn1, ToggleOff1, ToggleOn2, ToggleOff2}
    OBVIOUS
  <2>19. End1 \notin {<<>>, Off1, Off2, Off3, Blink1, Blink2, Blink3, Blink4,
                     On1, On2, Ping1, Ping2, Ping3, Ping4, ToggleOn1,
                     ToggleOff1, ToggleOn2, ToggleOff2, Toggle3}
    OBVIOUS
  <2>20. End2 \notin {<<>>, Off1, Off2, Off3, Blink1, Blink2, Blink3, Blink4,
                     On1, On2, Ping1, Ping2, Ping3, Ping4, ToggleOn1,
                     ToggleOff1, ToggleOn2, ToggleOff2, Toggle3, End1}
    OBVIOUS
  <2>21. SetsRole("IDLE") \notin {<<>>, Off1, Off2, Off3, Blink1, Blink2,
                                 Blink3, Blink4, On1, On2, Ping1, Ping2,
                                 Ping3, Ping4, ToggleOn1, ToggleOff1,
                                 ToggleOn2, ToggleOff2, Toggle3, End1, End2}
    OBVIOUS
  <2>22. SetsRole("BONDING") \notin {<<>>, Off1, Off2, Off3, Blink1, Blink2,
                                    Blink3, Blink4, On1, On2, Ping1, Ping2,
                                    Ping3, Ping4, ToggleOn1, ToggleOff1,
                                    ToggleOn2, ToggleOff2, Toggle3, End1,
                                    End2, SetsRole("IDLE")}
    OBVIOUS
  <2>23. SetsRole("CONNECTED") \notin {<<>>, Off1, Off2, Off3, Blink1,
                                      Blink2, Blink3, Blink4, On1, On2,
                                      Ping1, Ping2, Ping3, Ping4, ToggleOn1,
                                      ToggleOff1, ToggleOn2, ToggleOff2,
                                      Toggle3, End1, End2, SetsRole("IDLE"),
                                      SetsRole("BONDING")}
    OBVIOUS
  <2> HIDE DEF Off1, Off2, Off3, Blink1, Blink2, Blink3, Blink4, On1, On2,
                Ping1, Ping2, Ping3, Ping4, Toggle1, Toggle2, Toggle3,
                ToggleOn1, ToggleOff1, ToggleOn2, ToggleOff2, End1, End2,
                SetsRole, Led, Stable, Start
  <2> QED  BY <1>1, <2>1, <2>2, <2>3, <2>4, <2>5, <2>6, <2>7, <2>8, <2>9,
              <2>10, <2>11, <2>12, <2>13, <2>14, <2>15, <2>16, <2>17, <2>18,
              <2>19, <2>20, <2>21, <2>22, <2>23 DEF Named
<1> HIDE DEF name
<1> QED  BY <1>2

-----------------------------------------------------------------------------
(* What the accesses of the programs are, and what follows each of them.   *)

\* The sequence operators on the short tuples that the programs are.
LEMMA AppendToPair ==
    ASSUME NEW a, NEW b, NEW c PROVE Append(<<a, b>>, c) = <<a, b, c>>
<1> DEFINE S == {a, b, c}
           l == <<a, b>>
           r == <<a, b, c>>
<1>1. l \in Seq(S) /\ Len(l) = 2 /\ l[1] = a /\ l[2] = b /\ c \in S
  OBVIOUS
<1>2. r \in Seq(S) /\ Len(r) = 3 /\ r[1] = a /\ r[2] = b /\ r[3] = c
  OBVIOUS
<1>3. <<c>> \in Seq(S) /\ Len(<<c>>) = 1 /\ <<c>>[1] = c
  OBVIOUS
<1> HIDE DEF S, l, r
<1>4. Append(l, c) = l \o <<c>>
  BY <1>1, AppendIsConcat
<1>5. /\ l \o <<c>> \in Seq(S) /\ Len(l \o <<c>>) = 3
      /\ (l \o <<c>>)[1] = a /\ (l \o <<c>>)[2] = b /\ (l \o <<c>>)[3] = c
  <2> DEFINE m == <<c>>
  <2>1. m \in Seq(S) /\ Len(m) = 1 /\ m[1] = c
    BY <1>3
  <2> HIDE DEF m
  <2>2. /\ l \o m \in Seq(S) /\ Len(l \o m) = Len(l) + Len(m)
        /\ \A i \in 1 .. Len(l) + Len(m) :
              (l \o m)[i] = IF i <= Len(l) THEN l[i] ELSE m[i - Len(l)]
    BY <1>1, <2>1, ConcatProperties, Zenon
  <2>3. Len(l) + Len(m) = 3
    BY <1>1, <2>1
  <2> QED  BY <1>1, <2>1, <2>2, <2>3 DEF m
<1>6. Append(l, c) = r
  BY <1>2, <1>4, <1>5, SeqEqual
<1> QED  BY <1>6 DEF l, r

\* An element put before a pair.
LEMMA SingleBeforePair ==
    ASSUME NEW a, NEW b, NEW c PROVE <<a>> \o <<b, c>> = <<a, b, c>>
<1> DEFINE S == {a, b, c}
           l == <<a>>
           m == <<b, c>>
           r == <<a, b, c>>
<1>1. /\ l \in Seq(S) /\ Len(l) = 1 /\ l[1] = a
      /\ m \in Seq(S) /\ Len(m) = 2 /\ m[1] = b /\ m[2] = c
  OBVIOUS
<1>2. r \in Seq(S) /\ Len(r) = 3 /\ r[1] = a /\ r[2] = b /\ r[3] = c
  OBVIOUS
<1> HIDE DEF S, l, m, r
<1>3. /\ l \o m \in Seq(S) /\ Len(l \o m) = 3
      /\ (l \o m)[1] = a /\ (l \o m)[2] = b /\ (l \o m)[3] = c
  BY <1>1, ConcatProperties
<1>4. \A i \in 1 .. 3 : (l \o m)[i] = r[i]
  BY <1>2, <1>3
<1>5. l \o m = r
  BY <1>2, <1>3, <1>4, SeqEqual
<1> QED  BY <1>5 DEF l, m, r

\* What is left of a single element.
LEMMA TailOfSingle == ASSUME NEW e PROVE Tail(<<e>>) = <<>>
OBVIOUS

\* What is left of two to four elements.
LEMMA TailsOfTuples ==
    ASSUME NEW a, NEW b, NEW c, NEW d
    PROVE  /\ Tail(<<a, b>>) = <<b>>
           /\ Tail(<<a, b, c>>) = <<b, c>>
           /\ Tail(<<a, b, c, d>>) = <<b, c, d>>
OBVIOUS

\* The first of one to four elements.
LEMMA HeadsOfTuples ==
    ASSUME NEW a, NEW b, NEW c, NEW d
    PROVE  /\ <<a>> # <<>> /\ Head(<<a>>) = a
           /\ <<a, b>> # <<>> /\ Head(<<a, b>>) = a
           /\ <<a, b, c>> # <<>> /\ Head(<<a, b, c>>) = a
           /\ <<a, b, c, d>> # <<>> /\ Head(<<a, b, c, d>>) = a
OBVIOUS

\* Nothing put after one to four elements.
LEMMA NothingAfter ==
    ASSUME NEW a, NEW b, NEW c, NEW d
    PROVE  /\ <<a>> \o <<>> = <<a>>
           /\ <<a, b>> \o <<>> = <<a, b>>
           /\ <<a, b, c>> \o <<>> = <<a, b, c>>
           /\ <<a, b, c, d>> \o <<>> = <<a, b, c, d>>
OBVIOUS

\* The first access of each program that has one, and the program after it.
Access(p, e, rest) == p # <<>> /\ Head(p) = e /\ Tail(p) = rest

\* The accesses that show a role, one after the other.
LEMMA AccessesOfRoles ==
    /\ Access(Off1, Led("connection", FALSE), Off2)
    /\ Access(Off2, Led("commissioning", FALSE), Off3)
    /\ Access(Off3, Stable("IDLE"), <<>>)
    /\ Access(Blink1, <<"out", 0, 0>>, Blink2)
    /\ Access(Blink2, <<"invert", 0, 0>>, Blink3)
    /\ Access(Blink3, Stable("BONDING"), Blink4)
    /\ Access(Blink4, Start("leds"), <<>>)
    /\ Access(On1, Led("connection", TRUE), On2)
    /\ Access(On2, Stable("CONNECTED"), <<>>)
    /\ \A i : Access(SetsRole(i), <<"connection", i, 0>>, <<>>)
<1>1. Access(Off1, Led("connection", FALSE), Off2)
  <2> DEFINE a == Led("connection", FALSE)
             b == Led("commissioning", FALSE)
             c == Stable("IDLE")
  <2>1. Off1 = <<a, b, c>> /\ Off2 = <<b, c>>
    BY DEF Off1, Off2
  <2> HIDE DEF a, b, c
  <2>2. Access(Off1, a, Off2)
    BY <2>1, HeadsOfTuples, TailsOfTuples DEF Access
  <2> QED  BY <2>2 DEF a
<1>2. Access(Off2, Led("commissioning", FALSE), Off3)
  BY HeadsOfTuples, TailsOfTuples DEF Access, Off2, Off3
<1>3. Access(Off3, Stable("IDLE"), <<>>)
  BY HeadsOfTuples, TailOfSingle DEF Access, Off3
<1>4. Access(Blink1, <<"out", 0, 0>>, Blink2)
  BY HeadsOfTuples, TailsOfTuples DEF Access, Blink1, Blink2
<1>5. Access(Blink2, <<"invert", 0, 0>>, Blink3)
  BY HeadsOfTuples, TailsOfTuples DEF Access, Blink2, Blink3
<1>6. Access(Blink3, Stable("BONDING"), Blink4)
  BY HeadsOfTuples, TailsOfTuples DEF Access, Blink3, Blink4
<1>7. Access(Blink4, Start("leds"), <<>>)
  BY HeadsOfTuples, TailOfSingle DEF Access, Blink4
<1>8. Access(On1, Led("connection", TRUE), On2)
  BY HeadsOfTuples, TailsOfTuples DEF Access, On1, On2
<1>9. Access(On2, Stable("CONNECTED"), <<>>)
  BY HeadsOfTuples, TailOfSingle DEF Access, On2
<1>10. \A i : Access(SetsRole(i), <<"connection", i, 0>>, <<>>)
  BY HeadsOfTuples, TailOfSingle DEF Access, SetsRole
<1> QED  BY <1>1, <1>2, <1>3, <1>4, <1>5, <1>6, <1>7, <1>8, <1>9, <1>10

\* The accesses that show a ping.
LEMMA AccessesOfPings ==
    /\ Access(Ping1, <<"ping", 0, 0>>, Ping2)
    /\ Access(Ping2, <<"load", 0, 0>>, Ping3)
    /\ Access(Ping3, <<"decrement", 0, 0>>, <<>>)
    /\ Access(Ping4, <<"toggle", 0, 0>>, <<>>)
    /\ Access(ToggleOn1, Led("connection", TRUE), ToggleOn2)
    /\ Access(ToggleOff1, Led("connection", FALSE), ToggleOff2)
    /\ Access(ToggleOn2, Led("commissioning", TRUE), Toggle3)
    /\ Access(ToggleOff2, Led("commissioning", FALSE), Toggle3)
    /\ Access(Toggle3, Start("ping"), <<>>)
    /\ Access(End1, Led("commissioning", FALSE), End2)
    /\ Access(End2, <<"restore", 0, 0>>, <<>>)
<1>1. Access(Ping1, <<"ping", 0, 0>>, Ping2)
  BY HeadsOfTuples, TailsOfTuples DEF Access, Ping1, Ping2
<1>2. Access(Ping2, <<"load", 0, 0>>, Ping3)
  BY HeadsOfTuples, TailsOfTuples DEF Access, Ping2, Ping3
<1>3. Access(Ping3, <<"decrement", 0, 0>>, <<>>)
  BY HeadsOfTuples, TailOfSingle DEF Access, Ping3
<1>4. Access(Ping4, <<"toggle", 0, 0>>, <<>>)
  BY HeadsOfTuples, TailOfSingle DEF Access, Ping4
<1>5. \A on : Access(Toggle1(on), Led("connection", on), Toggle2(on))
  BY HeadsOfTuples, TailsOfTuples DEF Access, Toggle1, Toggle2
<1>6. \A on : Access(Toggle2(on), Led("commissioning", on), Toggle3)
  BY HeadsOfTuples, TailsOfTuples DEF Access, Toggle2, Toggle3
<1>7. Access(Toggle3, Start("ping"), <<>>)
  BY HeadsOfTuples, TailOfSingle DEF Access, Toggle3
<1>8. Access(End1, Led("commissioning", FALSE), End2)
  BY HeadsOfTuples, TailsOfTuples DEF Access, End1, End2
<1>9. Access(End2, <<"restore", 0, 0>>, <<>>)
  BY HeadsOfTuples, TailOfSingle DEF Access, End2
<1>10. /\ Access(ToggleOn1, Led("connection", TRUE), ToggleOn2)
       /\ Access(ToggleOff1, Led("connection", FALSE), ToggleOff2)
       /\ Access(ToggleOn2, Led("commissioning", TRUE), Toggle3)
       /\ Access(ToggleOff2, Led("commissioning", FALSE), Toggle3)
  BY <1>5, <1>6, Zenon DEF ToggleOn1, ToggleOff1, ToggleOn2, ToggleOff2
<1> QED  BY <1>1, <1>2, <1>3, <1>4, <1>7, <1>8, <1>9, <1>10, Zenon

\* The programs that the functions begin.
ShowsFrom(i) == IF i = "IDLE" THEN Off1 ELSE IF i = "BONDING" THEN Blink1 ELSE On1

\* bsp_led_indication begins the program of its indication.
LEMMA IndicationIsProgram ==
    ASSUME NEW i \in Indications PROVE bsp_led_indication(i) = ShowsFrom(i)
<1>1. Append(leds_off, Stable("IDLE")) = Off1
  BY AppendToPair DEF leds_off, Off1
<1>2. CASE i = "IDLE"
  BY <1>1, <1>2 DEF bsp_led_indication, ShowsFrom
<1>3. CASE i = "BONDING"
  BY <1>3 DEF bsp_led_indication, ShowsFrom, Blink1
<1>4. CASE i = "CONNECTED"
  BY <1>4 DEF bsp_led_indication, ShowsFrom, On1
<1> QED  BY <1>2, <1>3, <1>4 DEF Indications

\* So do the functions of a ping.
LEMMA PingIsProgram ==
    /\ bsp_ping_led_indication = Ping2
    /\ bsp_thread_ping_indication_set = Ping1
    /\ PingEnds = End1
    /\ \A on : PingToggles(on) = Toggle1(on)
<1>1. bsp_thread_ping_indication_set = Ping1
  BY SingleBeforePair DEF bsp_thread_ping_indication_set, bsp_ping_led_indication, Ping1
<1> QED  BY <1>1 DEF bsp_ping_led_indication, PingEnds, PingToggles, Ping2, End1, Toggle1

\* A function called by the last access of a program takes its place.
LEMMA CalledAtTheEnd ==
    /\ Off1 \o <<>> = Off1 /\ Blink1 \o <<>> = Blink1 /\ On1 \o <<>> = On1
    /\ Ping4 \o <<>> = Ping4 /\ End1 \o <<>> = End1
    /\ \A on : Toggle1(on) \o <<>> = Toggle1(on)
BY NothingAfter DEF Off1, Blink1, On1, Ping4, End1, Toggle1

-----------------------------------------------------------------------------
(* Each access, in terms of the programs.                                  *)

Moves(c, p, q) == todo[c] = p /\ todo' = [todo EXCEPT ![c] = q]

\* The fields of a write of a LED.
LEMMA LedFields ==
    ASSUME NEW l, NEW on
    PROVE  Led(l, on)[1] = "led" /\ Led(l, on)[2] = l /\ Led(l, on)[3] = on
BY DEF Led

\* The fields of the other accesses.
LEMMA OtherFields ==
    ASSUME NEW k, NEW x
    PROVE  /\ Stable(x)[1] = "stable" /\ Stable(x)[2] = x
           /\ Start(x)[1] = "start" /\ Start(x)[2] = x
           /\ <<k, x, 0>>[1] = k /\ <<k, x, 0>>[2] = x
BY DEF Stable, Start

Kind(p) == Head(p)[1]

\* A program that begins with a write of a LED is at one.
LEMMA LedKind ==
    ASSUME NEW p, NEW l, NEW on, NEW q, Access(p, Led(l, on), q) PROVE Kind(p) = "led"
BY LedFields DEF Access, Kind

\* So with the other accesses.
LEMMA OtherKind ==
    ASSUME NEW p, NEW x, NEW q
    PROVE  /\ Access(p, Stable(x), q) => Kind(p) = "stable"
           /\ Access(p, Start(x), q) => Kind(p) = "start"
BY OtherFields DEF Access, Kind

\* The kind of access each program is at.
LEMMA KindsOfPrograms ==
    /\ Kind(Off1) = "led" /\ Kind(Off2) = "led" /\ Kind(Off3) = "stable"
    /\ Kind(Blink1) = "out" /\ Kind(Blink2) = "invert"
    /\ Kind(Blink3) = "stable" /\ Kind(Blink4) = "start"
    /\ Kind(On1) = "led" /\ Kind(On2) = "stable"
    /\ \A i : Kind(SetsRole(i)) = "connection"
    /\ Kind(Ping1) = "ping" /\ Kind(Ping2) = "load" /\ Kind(Ping3) = "decrement"
    /\ Kind(Ping4) = "toggle" /\ Kind(Toggle3) = "start"
    /\ Kind(ToggleOn1) = "led" /\ Kind(ToggleOff1) = "led"
    /\ Kind(ToggleOn2) = "led" /\ Kind(ToggleOff2) = "led"
    /\ Kind(End1) = "led" /\ Kind(End2) = "restore"
<1>1. /\ Kind(Off1) = "led" /\ Kind(Off2) = "led" /\ Kind(On1) = "led" /\ Kind(End1) = "led"
  <2>1. /\ Access(Off1, Led("connection", FALSE), Off2)
        /\ Access(Off2, Led("commissioning", FALSE), Off3)
        /\ Access(On1, Led("connection", TRUE), On2)
        /\ Access(End1, Led("commissioning", FALSE), End2)
    BY AccessesOfRoles, AccessesOfPings, Zenon
  <2> QED  BY <2>1, LedKind, Zenon
<1>2. /\ Kind(ToggleOn1) = "led" /\ Kind(ToggleOff1) = "led"
      /\ Kind(ToggleOn2) = "led" /\ Kind(ToggleOff2) = "led"
  <2>1. /\ Access(ToggleOn1, Led("connection", TRUE), ToggleOn2)
        /\ Access(ToggleOff1, Led("connection", FALSE), ToggleOff2)
        /\ Access(ToggleOn2, Led("commissioning", TRUE), Toggle3)
        /\ Access(ToggleOff2, Led("commissioning", FALSE), Toggle3)
    BY AccessesOfPings, Zenon
  <2> QED  BY <2>1, LedKind, Zenon
<1>3. /\ Kind(Off3) = "stable" /\ Kind(Blink3) = "stable" /\ Kind(On2) = "stable"
      /\ Kind(Blink4) = "start" /\ Kind(Toggle3) = "start"
  BY AccessesOfRoles, AccessesOfPings, OtherKind
<1>4. /\ Kind(Blink1) = "out" /\ Kind(Blink2) = "invert"
      /\ \A i : Kind(SetsRole(i)) = "connection"
  BY AccessesOfRoles DEF Access, Kind
<1>5. /\ Kind(Ping1) = "ping" /\ Kind(Ping2) = "load" /\ Kind(Ping3) = "decrement"
      /\ Kind(Ping4) = "toggle" /\ Kind(End2) = "restore"
  BY AccessesOfPings DEF Access, Kind
<1> QED  BY <1>1, <1>2, <1>3, <1>4, <1>5

\* A context that makes an access is in a program that begins with it.
LEMMA ProgramsBeginSo ==
    ASSUME ProgramsOK, NEW c \in Contexts, todo[c] # <<>>
    PROVE  /\ todo[c] \in Programs
           /\ Kind(todo[c]) = "led" => todo[c] \in
                {Off1, Off2, On1, ToggleOn1, ToggleOff1, ToggleOn2, ToggleOff2, End1}
           /\ Kind(todo[c]) = "stable" => todo[c] \in {Off3, Blink3, On2}
           /\ Kind(todo[c]) = "start" => todo[c] \in {Blink4, Toggle3}
           /\ Kind(todo[c]) = "out" => todo[c] = Blink1
           /\ Kind(todo[c]) = "invert" => todo[c] = Blink2
           /\ Kind(todo[c]) = "connection" => \E i \in Indications : todo[c] = SetsRole(i)
           /\ Kind(todo[c]) = "ping" => todo[c] = Ping1
           /\ Kind(todo[c]) = "load" => todo[c] = Ping2
           /\ Kind(todo[c]) = "decrement" => todo[c] = Ping3
           /\ Kind(todo[c]) = "toggle" => todo[c] = Ping4
           /\ Kind(todo[c]) = "restore" => todo[c] = End2
<1>1. todo[c] \in Programs
  BY DEF ProgramsOK
<1>2. \/ todo[c] \in {Off1, Off2, Off3, Blink1, Blink2, Blink3, Blink4, On1, On2}
      \/ \E i \in Indications : todo[c] = SetsRole(i)
      \/ todo[c] \in {Ping1, Ping2, Ping3, Ping4, Toggle3, End1, End2}
      \/ todo[c] \in {ToggleOn1, ToggleOff1, ToggleOn2, ToggleOff2}
  BY <1>1 DEF Programs, MainPrograms, RtcPrograms, Shows, ShowsIdle, ShowsBonding,
              ShowsConnected, Counts, Toggles, Ends
<1> QED  BY <1>1, <1>2, KindsOfPrograms

\* What an access does is what its fields say.
LedSet(l, on) == [led EXCEPT ![l] = on]

\* A write of a LED writes the LED of its access.
LEMMA LedAccess ==
    ASSUME NEW c, bsp_board_led_write(c),
           NEW p, NEW l, NEW on, NEW q, todo[c] = p, Access(p, Led(l, on), q)
    PROVE  Moves(c, p, q) /\ led' = LedSet(l, on)
<1>1. led' = [led EXCEPT ![Led(l, on)[2]] = Led(l, on)[3]] /\ todo' = [todo EXCEPT ![c] = q]
  BY DEF bsp_board_led_write, Arg, Continues, Access
<1> QED  BY <1>1, LedFields DEF Moves, LedSet

\* The stable indication becomes that of the access.
LEMMA StableAccess ==
    ASSUME NEW c \in Contexts, SetStable(c),
           NEW p, NEW i, NEW q, todo[c] = p, Access(p, Stable(i), q)
    PROVE  Moves(c, p, q) /\ m_stable_state' = i
<1>1. m_stable_state' = Stable(i)[2] /\ todo' = [todo EXCEPT ![c] = q]
  BY DEF SetStable, Arg, Continues, Access
<1> QED  BY <1>1, OtherFields DEF Moves

\* The timer of the access is started.
LEMMA StartAccess ==
    ASSUME NEW c \in Contexts, app_timer_start(c),
           NEW p, NEW t, NEW q, todo[c] = p, Access(p, Start(t), q)
    PROVE  Moves(c, p, q) /\ timers' = timers \cup {t}
<1>1. timers' = timers \cup {Start(t)[2]} /\ todo' = [todo EXCEPT ![c] = q]
  BY DEF app_timer_start, Arg, Continues, Access
<1> QED  BY <1>1, OtherFields DEF Moves

\* Where a LED may be written.
LEMMA LedWriteIs ==
    ASSUME ProgramsOK, NEW c \in Contexts, bsp_board_led_write(c)
    PROVE  \/ Moves(c, Off1, Off2) /\ led' = LedSet("connection", FALSE)
           \/ Moves(c, Off2, Off3) /\ led' = LedSet("commissioning", FALSE)
           \/ Moves(c, On1, On2) /\ led' = LedSet("connection", TRUE)
           \/ Moves(c, ToggleOn1, ToggleOn2) /\ led' = LedSet("connection", TRUE)
           \/ Moves(c, ToggleOff1, ToggleOff2) /\ led' = LedSet("connection", FALSE)
           \/ Moves(c, ToggleOn2, Toggle3) /\ led' = LedSet("commissioning", TRUE)
           \/ Moves(c, ToggleOff2, Toggle3) /\ led' = LedSet("commissioning", FALSE)
           \/ Moves(c, End1, End2) /\ led' = LedSet("commissioning", FALSE)
<1>1. todo[c] # <<>> /\ Kind(todo[c]) = "led"
  BY DEF bsp_board_led_write, At, Idle, Kind
<1>2. ASSUME todo[c] = Off1
      PROVE  Moves(c, Off1, Off2) /\ led' = LedSet("connection", FALSE)
  <2>1. Access(Off1, Led("connection", FALSE), Off2)
    BY AccessesOfRoles, Zenon
  <2> QED  BY <1>2, <2>1, LedAccess, Zenon
<1>3. ASSUME todo[c] = Off2
      PROVE  Moves(c, Off2, Off3) /\ led' = LedSet("commissioning", FALSE)
  <2>1. Access(Off2, Led("commissioning", FALSE), Off3)
    BY AccessesOfRoles, Zenon
  <2> QED  BY <1>3, <2>1, LedAccess, Zenon
<1>4. ASSUME todo[c] = On1
      PROVE  Moves(c, On1, On2) /\ led' = LedSet("connection", TRUE)
  <2>1. Access(On1, Led("connection", TRUE), On2)
    BY AccessesOfRoles, Zenon
  <2> QED  BY <1>4, <2>1, LedAccess, Zenon
<1>5. ASSUME todo[c] = ToggleOn1
      PROVE  Moves(c, ToggleOn1, ToggleOn2) /\ led' = LedSet("connection", TRUE)
  <2>1. Access(ToggleOn1, Led("connection", TRUE), ToggleOn2)
    BY AccessesOfPings, Zenon
  <2> QED  BY <1>5, <2>1, LedAccess, Zenon
<1>6. ASSUME todo[c] = ToggleOff1
      PROVE  Moves(c, ToggleOff1, ToggleOff2) /\ led' = LedSet("connection", FALSE)
  <2>1. Access(ToggleOff1, Led("connection", FALSE), ToggleOff2)
    BY AccessesOfPings, Zenon
  <2> QED  BY <1>6, <2>1, LedAccess, Zenon
<1>7. ASSUME todo[c] = ToggleOn2
      PROVE  Moves(c, ToggleOn2, Toggle3) /\ led' = LedSet("commissioning", TRUE)
  <2>1. Access(ToggleOn2, Led("commissioning", TRUE), Toggle3)
    BY AccessesOfPings, Zenon
  <2> QED  BY <1>7, <2>1, LedAccess, Zenon
<1>8. ASSUME todo[c] = ToggleOff2
      PROVE  Moves(c, ToggleOff2, Toggle3) /\ led' = LedSet("commissioning", FALSE)
  <2>1. Access(ToggleOff2, Led("commissioning", FALSE), Toggle3)
    BY AccessesOfPings, Zenon
  <2> QED  BY <1>8, <2>1, LedAccess, Zenon
<1>9. ASSUME todo[c] = End1
      PROVE  Moves(c, End1, End2) /\ led' = LedSet("commissioning", FALSE)
  <2>1. Access(End1, Led("commissioning", FALSE), End2)
    BY AccessesOfPings, Zenon
  <2> QED  BY <1>9, <2>1, LedAccess, Zenon
<1>10. todo[c] \in {Off1, Off2, On1, ToggleOn1, ToggleOff1, ToggleOn2, ToggleOff2, End1}
  BY <1>1, ProgramsBeginSo
<1> QED  BY <1>2, <1>3, <1>4, <1>5, <1>6, <1>7, <1>8, <1>9, <1>10

\* Where the stable indication may be set.
LEMMA SetStableIs ==
    ASSUME ProgramsOK, NEW c \in Contexts, SetStable(c)
    PROVE  \/ Moves(c, Off3, <<>>) /\ m_stable_state' = "IDLE"
           \/ Moves(c, Blink3, Blink4) /\ m_stable_state' = "BONDING"
           \/ Moves(c, On2, <<>>) /\ m_stable_state' = "CONNECTED"
<1>1. todo[c] # <<>> /\ Kind(todo[c]) = "stable"
  BY DEF SetStable, At, Idle, Kind
<1>2. todo[c] \in {Off3, Blink3, On2}
  BY <1>1, ProgramsBeginSo
<1> QED  BY <1>2, StableAccess, AccessesOfRoles

\* Where a timer may be started.
LEMMA StartIs ==
    ASSUME ProgramsOK, NEW c \in Contexts, app_timer_start(c)
    PROVE  \/ Moves(c, Blink4, <<>>) /\ timers' = timers \cup {"leds"}
           \/ Moves(c, Toggle3, <<>>) /\ timers' = timers \cup {"ping"}
<1>1. todo[c] # <<>> /\ Kind(todo[c]) = "start"
  BY DEF app_timer_start, At, Idle, Kind
<1>2. todo[c] \in {Blink4, Toggle3}
  BY <1>1, ProgramsBeginSo
<1> QED  BY <1>2, StartAccess, AccessesOfRoles, AccessesOfPings

\* The two accesses that invert a LED.
LEMMA InvertIs ==
    ASSUME ProgramsOK, NEW c \in Contexts
    PROVE  /\ InvertReads(c) => Moves(c, Blink1, Blink2)
           /\ InvertWrites(c) => Moves(c, Blink2, Blink3)
BY ProgramsBeginSo, AccessesOfRoles
   DEF InvertReads, InvertWrites, At, Idle, Continues, Moves, Access, Kind

\* A role is recorded and its indication begun.
LEMMA SetConnectionIs ==
    ASSUME ProgramsOK, NEW c \in Contexts, SetConnection(c)
    PROVE  \E i \in Indications : Moves(c, SetsRole(i), ShowsFrom(i)) /\ m_connection_state' = i
<1>1. /\ todo[c] # <<>> /\ Kind(todo[c]) = "connection"
      /\ m_connection_state' = Head(todo[c])[2]
      /\ todo' = [todo EXCEPT ![c] = bsp_led_indication(Head(todo[c])[2]) \o Tail(todo[c])]
  BY DEF SetConnection, At, Idle, Arg, Calls, Kind
<1>2. PICK i \in Indications : todo[c] = SetsRole(i)
  BY <1>1, ProgramsBeginSo
<1>3. Head(todo[c])[2] = i /\ Tail(todo[c]) = <<>>
  BY <1>2, AccessesOfRoles DEF Access
<1>4. ShowsFrom(i) \o <<>> = ShowsFrom(i)
  BY CalledAtTheEnd DEF ShowsFrom
<1> QED  BY <1>1, <1>2, <1>3, <1>4, IndicationIsProgram DEF Moves

\* The last of a ping begins the indication of the recorded role.
LEMMA RestoreIs ==
    ASSUME ProgramsOK, m_connection_state \in Indications, NEW c \in Contexts, Restore(c)
    PROVE  Moves(c, End2, ShowsFrom(m_connection_state))
<1>1. /\ todo[c] # <<>> /\ Kind(todo[c]) = "restore"
      /\ todo' = [todo EXCEPT ![c] = bsp_led_indication(m_connection_state) \o Tail(todo[c])]
  BY DEF Restore, At, Idle, Calls, Kind
<1>2. todo[c] = End2 /\ Tail(todo[c]) = <<>>
  BY <1>1, ProgramsBeginSo, AccessesOfPings DEF Access
<1>3. ShowsFrom(m_connection_state) \o <<>> = ShowsFrom(m_connection_state)
  BY CalledAtTheEnd DEF ShowsFrom
<1> QED  BY <1>1, <1>2, <1>3, IndicationIsProgram DEF Moves

\* The accesses that begin to count.
LEMMA CountingIs ==
    ASSUME ProgramsOK, NEW c \in Contexts
    PROVE  /\ SetPing(c) => Moves(c, Ping1, Ping2)
           /\ LoadPing(c) => Moves(c, Ping2, Ping3)
BY ProgramsBeginSo, AccessesOfPings
   DEF SetPing, LoadPing, At, Idle, Continues, Moves, Access, Kind

\* The count decides whether a ping ends.
LEMMA DecrementIs ==
    ASSUME ProgramsOK, NEW c \in Contexts, DecrementPing(c)
    PROVE  Moves(c, Ping3, IF m_indicating_ping' = 0 THEN End1 ELSE Ping4)
<1>1. /\ todo[c] # <<>> /\ Kind(todo[c]) = "decrement"
      /\ todo' = [todo EXCEPT ![c] =
           (IF m_indicating_ping' = 0 THEN End1 ELSE Ping4) \o Tail(todo[c])]
  BY PingIsProgram DEF DecrementPing, At, Idle, Calls, Kind, Ping4
<1>2. todo[c] = Ping3 /\ Tail(todo[c]) = <<>>
  BY <1>1, ProgramsBeginSo, AccessesOfPings DEF Access
<1> QED  BY <1>1, <1>2, CalledAtTheEnd DEF Moves

\* The commissioning LED decides which toggle comes next.
LEMMA ToggleIs ==
    ASSUME ProgramsOK, TypeOK, NEW c \in Contexts, TogglePing(c)
    PROVE  Moves(c, Ping4, ToggleOn1) \/ Moves(c, Ping4, ToggleOff1)
<1>1. /\ todo[c] # <<>> /\ Kind(todo[c]) = "toggle"
      /\ todo' = [todo EXCEPT ![c] = PingToggles(~led.commissioning) \o Tail(todo[c])]
  BY DEF TogglePing, At, Idle, Calls, Kind
<1>2. todo[c] = Ping4 /\ Tail(todo[c]) = <<>>
  BY <1>1, ProgramsBeginSo, AccessesOfPings DEF Access
<1>3. /\ PingToggles(TRUE) \o <<>> = ToggleOn1
      /\ PingToggles(FALSE) \o <<>> = ToggleOff1
  BY PingIsProgram, CalledAtTheEnd, Zenon DEF ToggleOn1, ToggleOff1
<1>4. CASE led.commissioning = TRUE
  <2>1. (~led.commissioning) = FALSE
    BY <1>4
  <2> QED  BY <1>1, <1>2, <1>3, <2>1 DEF Moves
<1>5. CASE led.commissioning = FALSE
  <2>1. (~led.commissioning) = TRUE
    BY <1>5
  <2> QED  BY <1>1, <1>2, <1>3, <2>1 DEF Moves
<1>6. led.commissioning \in BOOLEAN
  BY DEF TypeOK
<1> QED  BY <1>4, <1>5, <1>6

-----------------------------------------------------------------------------
(* What the programs are about, program by program.                        *)

\* What each program shows.
LEMMA ShowOf ==
    /\ Show(<<>>) = "none" /\ Show(Off1) = "IDLE" /\ Show(Off2) = "IDLE"
    /\ Show(Off3) = "IDLE" /\ Show(Blink1) = "BONDING" /\ Show(Blink2) = "BONDING"
    /\ Show(Blink3) = "BONDING" /\ Show(Blink4) = "BONDING" /\ Show(On1) = "CONNECTED"
    /\ Show(On2) = "CONNECTED" /\ Show(Ping1) = "none" /\ Show(Ping2) = "none"
    /\ Show(Ping3) = "none" /\ Show(Ping4) = "none" /\ Show(ToggleOn1) = "none"
    /\ Show(ToggleOff1) = "none" /\ Show(ToggleOn2) = "none" /\ Show(ToggleOff2) = "none"
    /\ Show(Toggle3) = "none" /\ Show(End1) = "none" /\ Show(End2) = "none"
    /\ Show(SetsRole("IDLE")) = "none" /\ Show(SetsRole("BONDING")) = "none"
    /\ Show(SetsRole("CONNECTED")) = "none"
<1>1. PICK name : Named(name)
  BY ProgramsDiffer
<1> QED  BY <1>1 DEF Named, Show, ShowsIdle, ShowsBonding, ShowsConnected

\* What each program does for a ping.
LEMMA PhaseOf ==
    /\ Phase(<<>>) = "none" /\ Phase(Off1) = "none" /\ Phase(Off2) = "none"
    /\ Phase(Off2) = "none" /\ Phase(Off3) = "none" /\ Phase(Blink1) = "none"
    /\ Phase(Blink1) = "none" /\ Phase(Blink2) = "none" /\ Phase(Blink3) = "none"
    /\ Phase(Blink3) = "none" /\ Phase(Blink4) = "none" /\ Phase(On1) = "none"
    /\ Phase(On1) = "none" /\ Phase(On2) = "none" /\ Phase(Ping1) = "asks"
    /\ Phase(Ping1) = "asks" /\ Phase(Ping2) = "loads" /\ Phase(Ping3) = "counts"
    /\ Phase(Ping3) = "counts" /\ Phase(Ping4) = "toggles" /\ Phase(ToggleOn1) = "toggles"
    /\ Phase(ToggleOn1) = "toggles" /\ Phase(ToggleOff1) = "toggles"
    /\ Phase(ToggleOn2) = "toggles"
    /\ Phase(ToggleOn2) = "toggles" /\ Phase(ToggleOff2) = "toggles"
    /\ Phase(Toggle3) = "toggles"
    /\ Phase(Toggle3) = "toggles" /\ Phase(End1) = "ends" /\ Phase(End2) = "ends"
    /\ Phase(End2) = "ends" /\ Phase(SetsRole("IDLE")) = "none"
    /\ Phase(SetsRole("BONDING")) = "none"
    /\ Phase(SetsRole("BONDING")) = "none" /\ Phase(SetsRole("CONNECTED")) = "none"
<1>1. PICK name : Named(name)
  BY ProgramsDiffer
<1> QED  BY <1>1 DEF Named, Phase, Toggles, Ends

\* The programs at which something is about to change.
LEMMA StageOf ==
    /\ Stage(<<>>) = "other" /\ Stage(Off1) = "first" /\ Stage(Off2) = "other"
    /\ Stage(Off2) = "other" /\ Stage(Off3) = "other" /\ Stage(Blink1) = "other"
    /\ Stage(Blink1) = "other" /\ Stage(Blink2) = "other" /\ Stage(Blink3) = "other"
    /\ Stage(Blink3) = "other" /\ Stage(Blink4) = "last" /\ Stage(On1) = "first"
    /\ Stage(On1) = "first" /\ Stage(On2) = "other" /\ Stage(Ping1) = "other"
    /\ Stage(Ping1) = "other" /\ Stage(Ping2) = "other" /\ Stage(Ping3) = "other"
    /\ Stage(Ping3) = "other" /\ Stage(Ping4) = "other" /\ Stage(ToggleOn1) = "other"
    /\ Stage(ToggleOn1) = "other" /\ Stage(ToggleOff1) = "other"
    /\ Stage(ToggleOn2) = "other"
    /\ Stage(ToggleOn2) = "other" /\ Stage(ToggleOff2) = "other" /\ Stage(Toggle3) = "other"
    /\ Stage(Toggle3) = "other" /\ Stage(End1) = "clears" /\ Stage(End2) = "other"
    /\ Stage(End2) = "other" /\ Stage(SetsRole("IDLE")) = "sets"
    /\ Stage(SetsRole("BONDING")) = "other"
    /\ Stage(SetsRole("BONDING")) = "other" /\ Stage(SetsRole("CONNECTED")) = "sets"
<1>1. PICK name : Named(name)
  BY ProgramsDiffer
<1> QED  BY <1>1 DEF Named, Stage

\* The main loop never ends a ping, an interrupt never begins one.
Common == {<<>>, Off1, Off2, Off3, Blink1, Blink2, Blink3, Blink4, On1, On2, Ping2, Ping3,
           Ping4, ToggleOn1, ToggleOff1, ToggleOn2, ToggleOff2, Toggle3}

\* Which programs main may be in, and which an interrupt.
LEMMA WhoRunsWhat ==
    /\ Common \subseteq MainPrograms /\ Common \subseteq RtcPrograms
    /\ End1 \in RtcPrograms /\ End2 \in RtcPrograms
    /\ End1 \notin MainPrograms /\ End2 \notin MainPrograms
    /\ Ping1 \notin RtcPrograms /\ \A i \in Indications : SetsRole(i) \notin RtcPrograms
    /\ \A i \in Indications : ShowsFrom(i) \in Common
    /\ MainPrograms \subseteq Programs /\ RtcPrograms \subseteq Programs
<1>1. PICK name : Named(name)
  BY ProgramsDiffer
<1>2. Common \subseteq MainPrograms /\ Common \subseteq RtcPrograms
  BY DEF Common, MainPrograms, RtcPrograms, Shows, ShowsIdle, ShowsBonding, ShowsConnected,
         Counts, Toggles
<1>3. End1 \in RtcPrograms /\ End2 \in RtcPrograms
  BY DEF RtcPrograms, Ends
<1>4. /\ End1 \notin MainPrograms /\ End2 \notin MainPrograms
      /\ Ping1 \notin RtcPrograms /\ \A i \in Indications : SetsRole(i) \notin RtcPrograms
  <2>1. MainPrograms = {SetsRole("IDLE"), SetsRole("BONDING"), SetsRole("CONNECTED"), Ping1}
                         \cup Common
    BY DEF Common, MainPrograms, Shows, ShowsIdle, ShowsBonding, ShowsConnected,
           Counts, Toggles, Indications
  <2>2. RtcPrograms = {End1, End2} \cup Common
    BY DEF Common, RtcPrograms, Shows, ShowsIdle, ShowsBonding, ShowsConnected,
           Counts, Toggles, Ends
  <2>3. \A p \in Common : name[p] \in
           {"nothing", "Off1", "Off2", "Off3", "Blink1", "Blink2", "Blink3", "Blink4",
            "On1", "On2", "Ping2", "Ping3", "Ping4", "ToggleOn1", "ToggleOff1", "ToggleOn2",
            "ToggleOff2", "Toggle3"}
    BY <1>1 DEF Named, Common
  <2>4. /\ End1 # Ping1 /\ End2 # Ping1
        /\ \A i \in Indications :
             SetsRole(i) # Ping1 /\ SetsRole(i) # End1 /\ SetsRole(i) # End2
    BY <1>1 DEF Named, Indications
  <2>5. Ping1 \notin Common /\ End1 \notin Common /\ End2 \notin Common
    BY <1>1, <2>3 DEF Named
  <2>6. \A i \in Indications : SetsRole(i) \notin Common
    BY <1>1, <2>3 DEF Named, Indications
  <2> QED  BY <2>1, <2>2, <2>4, <2>5, <2>6 DEF Indications
<1>5. \A i \in Indications : ShowsFrom(i) \in Common
  BY DEF ShowsFrom, Common
<1> QED  BY <1>2, <1>3, <1>4, <1>5 DEF Programs

\* Only one context moves, the main loop only when no interrupt is served.
LEMMA OneMoves ==
    ASSUME ProgramsOK, NEW c \in Contexts, NEW p, NEW q \in Programs, Moves(c, p, q), Runs(c)
    PROVE  /\ todo' \in [Contexts -> Programs]
           /\ \/ c = "main" /\ Main = p /\ Main' = q /\ Rtc = <<>> /\ Rtc' = <<>>
              \/ c = "rtc" /\ Rtc = p /\ Rtc' = q /\ Main' = Main
BY DEF ProgramsOK, Moves, Runs, Idle, Main, Rtc, Contexts

-----------------------------------------------------------------------------
(* Steps that leave a part of the invariant alone.                         *)

\* The counts and the expiries are natural numbers.
LEMMA CountsAreNumbers ==
    ASSUME TypeOK
    PROVE  /\ NumToggles \in Nat /\ NumToggles >= 2 /\ NumToggles <= 255
           /\ m_indicating_ping \in Nat /\ expiries \in Nat /\ expiries <= NumToggles - 2
           /\ \A c \in Contexts : read[c] \in Nat
BY BspThreadAssumption DEF TypeOK

\* While main shows a toggle there are toggles left: the interrupt cannot
\* have used them all up.
LEMMA MainKeepsToggles ==
    ASSUME TypeOK, MainCounts, Phase(Main) = "toggles" PROVE m_indicating_ping > 0
BY CountsAreNumbers DEF MainCounts, Pending

\* Nothing happens to a ping.
LEMMA PingsKept ==
    ASSUME PingInv, UNCHANGED m_indicating_ping, "ping" \in timers' <=> "ping" \in timers,
           Phase(Main') = Phase(Main) \/ {Phase(Main), Phase(Main')} \subseteq {"none", "ends"},
           Phase(Rtc') = Phase(Rtc) \/ {Phase(Rtc), Phase(Rtc')} \subseteq {"none", "ends"},
           Phase(Main') \in Busy => expiries' = expiries /\ read'["main"] = read["main"],
           Phase(Rtc') = "counts" => read'["rtc"] = read["rtc"]
    PROVE  PingInv'
<1>1. Pending' = Pending
  BY DEF Pending
<1>2. PingsCount'
  BY DEF PingInv, PingsCount, Busy
<1>3. MainCounts'
  BY <1>1 DEF PingInv, MainCounts, Busy
<1>4. PingIsTimed'
  BY DEF PingInv, PingIsTimed, Busy
<1> QED  BY <1>2, <1>3, <1>4 DEF PingInv

\* Nothing happens to what is shown.
LEMMA ShowsKept ==
    ASSUME UNCHANGED <<m_connection_state, m_stable_state>>,
           "leds" \in timers' <=> "leds" \in timers,
           Show(Main') = Show(Main), Show(Rtc') = Show(Rtc),
           Stage(Main') = "last" <=> Stage(Main) = "last",
           Stage(Rtc') = "last" => Stage(Rtc) = "last",
           Stage(Main') = "sets" => Stage(Main) = "sets"
    PROVE  (BlinkIsTimed => BlinkIsTimed') /\ (RoleInv => RoleInv')
<1>1. ShowingRole' <=> ShowingRole
  BY DEF ShowingRole
<1>2. Old' = Old
  BY <1>1 DEF Old
<1>3. BlinkIsTimed => BlinkIsTimed'
  BY DEF BlinkIsTimed
<1>4. RoleInv => RoleInv'
  BY <1>1, <1>2 DEF RoleInv, RoleKnown, RtcShows, LedsTimerKnows
<1> QED  BY <1>3, <1>4

\* Main shows nothing while it is about to set a role.
LEMMA SetsShowNothing ==
    ASSUME NEW p \in Programs, Stage(p) = "sets" PROVE Show(p) = "none"
<1>1. p \in {SetsRole("IDLE"), SetsRole("CONNECTED")}
  BY DEF Stage
<1> QED  BY <1>1, ShowOf

\* Nobody writes a LED.
LEMMA LedsKept ==
    ASSUME LedInv, UNCHANGED <<led, m_connection_state>>,
           "leds" \in timers => "leds" \in timers', m_indicating_ping > 0 => m_indicating_ping' > 0,
           Stage(Main) = "first" => Stage(Main') = "first",
           Stage(Rtc) \in {"first", "clears"} => Stage(Rtc') = Stage(Rtc),
           Phase(Rtc) = "ends" => Phase(Rtc') = "ends",
           Show(Rtc) = "BONDING" => Show(Rtc') = "BONDING"
    PROVE  LedInv'
BY DEF LedInv, LedIsShown, PingLedEnds

-----------------------------------------------------------------------------
(* The accesses.                                                           *)

\* A LED that is written stays on or off.
LEMMA LedsStayLeds ==
    ASSUME TypeOK, ProgramsOK, NEW c \in Contexts, bsp_board_led_write(c)
    PROVE  led' \in [{"connection", "commissioning"} -> BOOLEAN]
<1>1. /\ LedSet("connection", TRUE) \in [{"connection", "commissioning"} -> BOOLEAN]
      /\ LedSet("connection", FALSE) \in [{"connection", "commissioning"} -> BOOLEAN]
      /\ LedSet("commissioning", TRUE) \in [{"connection", "commissioning"} -> BOOLEAN]
      /\ LedSet("commissioning", FALSE) \in [{"connection", "commissioning"} -> BOOLEAN]
  BY DEF TypeOK, LedSet
<1>2. led' \in {LedSet("connection", TRUE), LedSet("connection", FALSE),
                LedSet("commissioning", TRUE), LedSet("commissioning", FALSE)}
  BY LedWriteIs, Zenon
<1> QED  BY <1>1, <1>2, Zenon

\* The first access of an indication sets the connection LED as it should
\* be; outside a ping, the others turn the commissioning LED off.
LEMMA LedWriteShows ==
    ASSUME TypeOK, ProgramsOK, NEW c \in Contexts, bsp_board_led_write(c)
    PROVE  /\ Stage(todo[c]) = "first" =>
                /\ led'.connection <=> Show(todo[c]) = "CONNECTED"
                /\ led'.commissioning <=> led.commissioning
           /\ Stage(todo[c]) # "first" /\ Phase(todo[c]) # "toggles" =>
                /\ led'.connection <=> led.connection
                /\ ~led'.commissioning
<1> DEFINE connOn == LedSet("connection", TRUE)
           connOff == LedSet("connection", FALSE)
           commOn == LedSet("commissioning", TRUE)
           commOff == LedSet("commissioning", FALSE)
<1>1. connOn.connection /\ ~connOff.connection /\ ~commOff.commissioning
  BY DEF TypeOK, LedSet
<1>2. /\ connOn.commissioning <=> led.commissioning
      /\ connOff.commissioning <=> led.commissioning
      /\ commOff.connection <=> led.connection
  BY DEF TypeOK, LedSet
<1>3. \/ todo[c] = Off1 /\ led' = connOff
      \/ todo[c] = On1 /\ led' = connOn
      \/ todo[c] \in {ToggleOn1, ToggleOff1, ToggleOn2, ToggleOff2}
      \/ todo[c] \in {Off2, End1} /\ led' = commOff
  <2>1. \/ todo[c] = Off1 /\ led' = connOff
        \/ todo[c] = On1 /\ led' = connOn
        \/ todo[c] = ToggleOn1 \/ todo[c] = ToggleOff1
        \/ todo[c] = ToggleOn2 \/ todo[c] = ToggleOff2
        \/ todo[c] = Off2 /\ led' = commOff
        \/ todo[c] = End1 /\ led' = commOff
    BY LedWriteIs, Zenon DEF Moves
  <2> HIDE DEF connOn, connOff, commOff
  <2> QED  BY <2>1
<1> HIDE DEF connOn, connOff, commOn, commOff
<1>4. CASE todo[c] = Off1 /\ led' = connOff
  BY <1>1, <1>2, <1>4, ShowOf, StageOf
<1>5. CASE todo[c] = On1 /\ led' = connOn
  BY <1>1, <1>2, <1>5, ShowOf, StageOf
<1>6. CASE todo[c] \in {ToggleOn1, ToggleOff1, ToggleOn2, ToggleOff2}
  BY <1>6, PhaseOf, StageOf
<1>7. CASE todo[c] \in {Off2, End1} /\ led' = commOff
  BY <1>1, <1>2, <1>7, StageOf
<1> QED  BY <1>3, <1>4, <1>5, <1>6, <1>7

\* One write of a LED keeps the invariant.
LEMMA LedWritePreserves ==
    ASSUME IInv, NEW c \in Contexts, bsp_board_led_write(c), UNCHANGED <<openthread, expiries>>
    PROVE  IInv'
<1>1. /\ TypeOK /\ ProgramsOK /\ PingInv /\ BlinkIsTimed
      /\ Patient => RoleInv /\ LedInv
  BY DEF IInv
<1>2. /\ UNCHANGED <<m_connection_state, m_stable_state, m_indicating_ping, timers, read>>
      /\ UNCHANGED <<role, changed, expiries>> /\ Runs(c)
  BY DEF bsp_board_led_write, At, openthread
<1>3. PICK p \in Programs, q \in Programs :
         /\ Moves(c, p, q)
         /\ \/ p = Off1 /\ q = Off2
            \/ p = Off2 /\ q = Off3
            \/ p = On1 /\ q = On2
            \/ p = ToggleOn1 /\ q = ToggleOn2
            \/ p = ToggleOff1 /\ q = ToggleOff2
            \/ p \in {ToggleOn2, ToggleOff2} /\ q = Toggle3
            \/ p = End1 /\ q = End2
  BY <1>1, LedWriteIs, WhoRunsWhat DEF Common, Programs
<1>4. /\ todo' \in [Contexts -> Programs]
      /\ \/ c = "main" /\ Main = p /\ Main' = q /\ Rtc = <<>> /\ Rtc' = <<>>
         \/ c = "rtc" /\ Rtc = p /\ Rtc' = q /\ Main' = Main
  BY <1>1, <1>2, <1>3, OneMoves
<1>5. /\ Show(q) = Show(p) /\ Show(p) # "BONDING" /\ Phase(q) = Phase(p)
      /\ Stage(q) = "other" /\ Stage(p) \in {"first", "clears", "other"}
      /\ Stage(p) = "first" => Show(p) \in {"IDLE", "CONNECTED"}
      /\ Phase(p) \in {"toggles", "ends", "none"} /\ Phase(<<>>) = "none"
      /\ Stage(<<>>) = "other"
  BY <1>3, ShowOf, PhaseOf, StageOf
<1>6. TypeOK'
  <2>1. led' \in [{"connection", "commissioning"} -> BOOLEAN]
    BY <1>1, LedsStayLeds
  <2> QED  BY <1>1, <1>2, <1>4, <2>1 DEF TypeOK
<1>7. ProgramsOK'
  BY <1>1, <1>3, <1>4, WhoRunsWhat DEF ProgramsOK, Common
<1>8. PingInv'
  BY <1>1, <1>2, <1>4, <1>5, PingsKept
<1>9. BlinkIsTimed'
  BY <1>1, <1>2, <1>4, <1>5, ShowsKept
<1>10. Patient => RoleInv'
  BY <1>1, <1>2, <1>4, <1>5, ShowsKept
<1>11. Patient => LedInv'
  <2> HAVE Patient
  <2>1. todo[c] = p
    BY <1>3 DEF Moves
  <2>2. CASE Phase(p) = "toggles"
    <3>1. m_indicating_ping > 0
      BY <1>1, <1>4, <2>2, MainKeepsToggles DEF PingInv, PingsCount, Busy
    <3> QED  BY <1>2, <3>1 DEF LedInv, LedIsShown, PingLedEnds
  <2>3. CASE Stage(p) = "first"
    <3>1. led'.connection <=> Show(p) = "CONNECTED"
      BY <1>1, <2>1, <2>3, LedWriteShows
    <3>2. led'.commissioning <=> led.commissioning
      BY <1>1, <2>1, <2>3, LedWriteShows
    <3>3. CASE c = "main"
      BY <1>1, <1>2, <1>4, <1>5, <2>3, <3>1, <3>2, <3>3
         DEF LedInv, LedIsShown, PingLedEnds, RoleInv, RoleKnown
    <3>4. CASE c = "rtc"
      <4>1. Show(p) \in Old
        BY <1>1, <1>4, <1>5, <2>3, <3>4 DEF RoleInv, RtcShows
      <4>2. m_connection_state = "BONDING" \/ Show(p) = m_connection_state
        BY <1>5, <2>3, <4>1 DEF Old
      <4> QED  BY <1>1, <1>2, <1>4, <1>5, <2>3, <3>1, <3>2, <3>4, <4>2
               DEF LedInv, LedIsShown, PingLedEnds
    <3> QED  BY <3>3, <3>4 DEF Contexts
  <2>4. CASE Stage(p) # "first" /\ Phase(p) # "toggles"
    <3>1. (led'.connection <=> led.connection) /\ ~led'.commissioning
      BY <1>1, <2>1, <2>4, LedWriteShows
    <3> QED  BY <1>1, <1>2, <1>4, <1>5, <2>4, <3>1 DEF LedInv, LedIsShown, PingLedEnds
  <2> QED  BY <2>2, <2>3, <2>4
<1> QED  BY <1>6, <1>7, <1>8, <1>9, <1>10, <1>11 DEF IInv

\* To read the connection LED keeps the invariant.
LEMMA InvertReadsPreserves ==
    ASSUME IInv, NEW c \in Contexts, InvertReads(c), UNCHANGED <<openthread, expiries>>
    PROVE  IInv'
<1>1. /\ TypeOK /\ ProgramsOK /\ PingInv /\ BlinkIsTimed
      /\ Patient => RoleInv /\ LedInv
  BY DEF IInv
<1>2. /\ UNCHANGED <<led, m_connection_state, m_stable_state, m_indicating_ping, timers>>
      /\ UNCHANGED <<role, changed, expiries>> /\ Runs(c)
      /\ read' = [read EXCEPT ![c] = IF led.connection THEN 1 ELSE 0]
  BY DEF InvertReads, At, openthread, bsp, Reads
<1>3. PICK p \in Programs, q \in Programs : Moves(c, p, q) /\ p = Blink1 /\ q = Blink2
  BY <1>1, InvertIs, WhoRunsWhat DEF Common, Programs
<1>4. /\ todo' \in [Contexts -> Programs]
      /\ \/ c = "main" /\ Main = p /\ Main' = q /\ Rtc = <<>> /\ Rtc' = <<>>
         \/ c = "rtc" /\ Rtc = p /\ Rtc' = q /\ Main' = Main
  BY <1>1, <1>2, <1>3, OneMoves
<1>5. /\ Show(p) = "BONDING" /\ Show(q) = "BONDING" /\ Stage(p) = "other" /\ Stage(q) = "other"
      /\ Phase(p) = "none" /\ Phase(q) = "none" /\ Phase(<<>>) = "none"
  BY <1>3, ShowOf, PhaseOf, StageOf
<1>6. TypeOK'
  <2>1. (IF led.connection THEN 1 ELSE 0) \in 0 .. NumToggles
    BY BspThreadAssumption
  <2>2. read' \in [Contexts -> 0 .. NumToggles]
    BY <1>1, <1>2, <2>1 DEF TypeOK
  <2> QED  BY <1>1, <1>2, <1>4, <2>2 DEF TypeOK
<1>7. ProgramsOK'
  BY <1>1, <1>3, <1>4, WhoRunsWhat DEF ProgramsOK, Common
<1>8. PingInv'
  <2>1. \A d \in Contexts \ {c} : read'[d] = read[d]
    BY <1>1, <1>2 DEF TypeOK
  <2> QED  BY <1>1, <1>2, <1>4, <1>5, <2>1, PingsKept DEF Contexts, Busy
<1>9. BlinkIsTimed'
  BY <1>1, <1>2, <1>4, <1>5, ShowsKept
<1>10. Patient => RoleInv'
  BY <1>1, <1>2, <1>4, <1>5, ShowsKept
<1>11. Patient => LedInv'
  BY <1>1, <1>2, <1>4, <1>5, LedsKept
<1> QED  BY <1>6, <1>7, <1>8, <1>9, <1>10, <1>11 DEF IInv

\* To invert the connection LED keeps the invariant: it is done to blink.
LEMMA InvertWritesPreserves ==
    ASSUME IInv, NEW c \in Contexts, InvertWrites(c), UNCHANGED <<openthread, expiries>>
    PROVE  IInv'
<1>1. /\ TypeOK /\ ProgramsOK /\ PingInv /\ BlinkIsTimed
      /\ Patient => RoleInv /\ LedInv
  BY DEF IInv
<1>2. /\ UNCHANGED <<m_connection_state, m_stable_state, m_indicating_ping, timers, read>>
      /\ UNCHANGED <<role, changed, expiries>> /\ Runs(c)
      /\ led' = [led EXCEPT !.connection = read[c] = 0]
  BY DEF InvertWrites, At, openthread
<1>3. PICK p \in Programs, q \in Programs : Moves(c, p, q) /\ p = Blink2 /\ q = Blink3
  BY <1>1, InvertIs, WhoRunsWhat DEF Common, Programs
<1>4. /\ todo' \in [Contexts -> Programs]
      /\ \/ c = "main" /\ Main = p /\ Main' = q /\ Rtc = <<>> /\ Rtc' = <<>>
         \/ c = "rtc" /\ Rtc = p /\ Rtc' = q /\ Main' = Main
  BY <1>1, <1>2, <1>3, OneMoves
<1>5. /\ Show(p) = "BONDING" /\ Show(q) = "BONDING" /\ Stage(p) = "other" /\ Stage(q) = "other"
      /\ Phase(p) = "none" /\ Phase(q) = "none"
  BY <1>3, ShowOf, PhaseOf, StageOf
<1>6. TypeOK'
  BY <1>1, <1>2, <1>4 DEF TypeOK
<1>7. ProgramsOK'
  BY <1>1, <1>3, <1>4, WhoRunsWhat DEF ProgramsOK, Common
<1>8. PingInv'
  BY <1>1, <1>2, <1>4, <1>5, PingsKept
<1>9. BlinkIsTimed'
  BY <1>1, <1>2, <1>4, <1>5, ShowsKept
<1>10. Patient => RoleInv'
  BY <1>1, <1>2, <1>4, <1>5, ShowsKept
<1>11. Patient => LedInv'
  <2>1. led'.commissioning = led.commissioning
    BY <1>1, <1>2 DEF TypeOK
  <2> QED  BY <1>1, <1>2, <1>4, <1>5, <2>1
           DEF LedInv, LedIsShown, PingLedEnds, RoleInv, RoleKnown
<1> QED  BY <1>6, <1>7, <1>8, <1>9, <1>10, <1>11 DEF IInv

\* The indication that has been shown becomes the stable one: in an interrupt
\* it is one that main may still be about to replace.
LEMMA SetStablePreserves ==
    ASSUME IInv, NEW c \in Contexts, SetStable(c), UNCHANGED <<openthread, expiries>>
    PROVE  IInv'
<1>1. /\ TypeOK /\ ProgramsOK /\ PingInv /\ BlinkIsTimed
      /\ Patient => RoleInv /\ LedInv
  BY DEF IInv
<1>2. /\ UNCHANGED <<led, m_connection_state, m_indicating_ping, timers, read>>
      /\ UNCHANGED <<role, changed, expiries>> /\ Runs(c)
  BY DEF SetStable, At, openthread
<1>3. PICK p \in Programs, q \in Programs :
         /\ Moves(c, p, q)
         /\ \/ p = Off3 /\ q = <<>> /\ m_stable_state' = "IDLE"
            \/ p = Blink3 /\ q = Blink4 /\ m_stable_state' = "BONDING"
            \/ p = On2 /\ q = <<>> /\ m_stable_state' = "CONNECTED"
  BY <1>1, SetStableIs, WhoRunsWhat DEF Common, Programs
<1>4. /\ todo' \in [Contexts -> Programs]
      /\ \/ c = "main" /\ Main = p /\ Main' = q /\ Rtc = <<>> /\ Rtc' = <<>>
         \/ c = "rtc" /\ Rtc = p /\ Rtc' = q /\ Main' = Main
  BY <1>1, <1>2, <1>3, OneMoves
<1>5. /\ m_stable_state' \in Indications /\ Show(p) = m_stable_state' /\ Stage(p) = "other"
      /\ IF m_stable_state' = "BONDING" THEN Show(q) = "BONDING" /\ Stage(q) = "last"
                                        ELSE Show(q) = "none" /\ Stage(q) = "other"
      /\ Phase(p) = "none" /\ Phase(q) = "none"
      /\ Show(<<>>) = "none" /\ Stage(<<>>) = "other"
  BY <1>3, ShowOf, PhaseOf, StageOf DEF Indications
<1>6. TypeOK'
  BY <1>1, <1>2, <1>4, <1>5 DEF TypeOK
<1>7. ProgramsOK'
  BY <1>1, <1>3, <1>4, WhoRunsWhat DEF ProgramsOK, Common
<1>8. PingInv'
  BY <1>1, <1>2, <1>4, <1>5, PingsKept
<1>9. BlinkIsTimed'
  BY <1>4, <1>5 DEF BlinkIsTimed
<1>10. Patient => RoleInv'
  <2> HAVE Patient
  <2>1. CASE c = "main"
    <3>1. ShowingRole /\ ~ShowingRole'
      BY <1>4, <1>5, <2>1 DEF ShowingRole, Indications
    <3>2. m_stable_state' = m_connection_state /\ m_connection_state' = m_connection_state
      BY <1>1, <1>2, <1>4, <1>5, <2>1 DEF RoleInv, RoleKnown, Indications
    <3>3. RoleKnown' /\ RtcShows'
      BY <1>4, <1>5, <2>1, <3>1, <3>2 DEF RoleKnown, RtcShows, Indications
    <3>4. LedsTimerKnows'
      BY <1>4, <1>5, <2>1, <3>1, <3>2 DEF LedsTimerKnows, Old
    <3> QED  BY <3>3, <3>4 DEF RoleInv
  <2>2. CASE c = "rtc"
    <3>1. /\ ShowingRole' <=> ShowingRole
          /\ Old' = Old
      BY <1>2, <1>4, <2>2 DEF ShowingRole, Old
    <3>2. m_stable_state' \in Old
      BY <1>1, <1>4, <1>5, <2>2 DEF RoleInv, RtcShows, Indications
    <3>3. ~ShowingRole => m_stable_state' = m_connection_state
      BY <3>2 DEF Old
    <3>4. RoleKnown'
      BY <1>1, <1>2, <1>4, <2>2, <3>1, <3>3 DEF RoleInv, RoleKnown
    <3>5. RtcShows'
      BY <1>4, <1>5, <2>2, <3>1, <3>2 DEF RtcShows
    <3>6. LedsTimerKnows'
      <4>1. ASSUME "leds" \in timers, Stage(Main) = "sets" PROVE m_stable_state' = "BONDING"
        <5>1. m_stable_state = "BONDING"
          BY <1>1, <4>1 DEF RoleInv, LedsTimerKnows
        <5>2. ~ShowingRole
          BY <1>1, <4>1, SetsShowNothing, WhoRunsWhat DEF ShowingRole, ProgramsOK
        <5> QED  BY <1>1, <3>3, <5>1, <5>2 DEF RoleInv, RoleKnown
      <4> QED  BY <1>2, <1>4, <2>2, <3>1, <3>2, <4>1 DEF LedsTimerKnows
    <3> QED  BY <3>4, <3>5, <3>6 DEF RoleInv
  <2> QED  BY <2>1, <2>2 DEF Contexts
<1>11. Patient => LedInv'
  BY <1>1, <1>2, <1>4, <1>5, LedsKept
<1> QED  BY <1>6, <1>7, <1>8, <1>9, <1>10, <1>11 DEF IInv

\* To start a timer keeps the invariant.
LEMMA StartPreserves ==
    ASSUME IInv, NEW c \in Contexts, app_timer_start(c), UNCHANGED <<openthread, expiries>>
    PROVE  IInv'
<1>1. /\ TypeOK /\ ProgramsOK /\ PingInv /\ BlinkIsTimed
      /\ Patient => RoleInv /\ LedInv
  BY DEF IInv
<1>2. /\ UNCHANGED <<led, m_connection_state, m_stable_state, m_indicating_ping, read>>
      /\ UNCHANGED <<role, changed, expiries>> /\ Runs(c)
  BY DEF app_timer_start, At, openthread
<1>3. PICK p \in Programs, q \in Programs :
         /\ Moves(c, p, q)
         /\ \/ p = Blink4 /\ q = <<>> /\ timers' = timers \cup {"leds"}
            \/ p = Toggle3 /\ q = <<>> /\ timers' = timers \cup {"ping"}
  BY <1>1, StartIs, WhoRunsWhat DEF Common, Programs
<1>4. /\ todo' \in [Contexts -> Programs]
      /\ \/ c = "main" /\ Main = p /\ Main' = q /\ Rtc = <<>> /\ Rtc' = <<>>
         \/ c = "rtc" /\ Rtc = p /\ Rtc' = q /\ Main' = Main
  BY <1>1, <1>2, <1>3, OneMoves
<1>5. /\ \/ /\ Show(p) = "BONDING" /\ Stage(p) = "last" /\ Phase(p) = "none"
            /\ timers' = timers \cup {"leds"}
         \/ /\ Show(p) = "none" /\ Stage(p) = "other" /\ Phase(p) = "toggles"
            /\ timers' = timers \cup {"ping"}
      /\ Show(q) = "none" /\ Phase(q) = "none" /\ Stage(q) = "other"
      /\ Show(<<>>) = "none" /\ Phase(<<>>) = "none" /\ Stage(<<>>) = "other"
  BY <1>3, ShowOf, PhaseOf, StageOf
<1>6. TypeOK'
  BY <1>1, <1>2, <1>4, <1>5 DEF TypeOK
<1>7. ProgramsOK'
  BY <1>1, <1>3, <1>4, WhoRunsWhat DEF ProgramsOK, Common
<1>12. Phase(p) = "toggles" => m_indicating_ping > 0
  BY <1>1, <1>4, MainKeepsToggles DEF PingInv, PingsCount, Busy
<1>8. PingInv'
  <2>1. CASE Phase(p) = "none"
    BY <1>1, <1>2, <1>4, <1>5, <2>1, PingsKept
  <2>2. CASE Phase(p) = "toggles"
    <3>1. Pending' = Pending
      BY <1>4, <1>5, <2>2 DEF Pending
    <3>2. PingsCount'
      BY <1>1, <1>2, <1>4, <1>5, <1>12, <2>2 DEF PingInv, PingsCount, Busy
    <3>3. MainCounts'
      BY <1>1, <1>2, <1>4, <1>5, <2>2, <3>1 DEF PingInv, MainCounts
    <3>4. PingIsTimed'
      BY <1>5, <2>2 DEF PingIsTimed
    <3> QED  BY <3>2, <3>3, <3>4 DEF PingInv
  <2> QED  BY <1>5, <2>1, <2>2
<1>9. BlinkIsTimed'
  BY <1>1, <1>2, <1>4, <1>5 DEF BlinkIsTimed
<1>10. Patient => RoleInv'
  <2> HAVE Patient
  <2>1. CASE Stage(p) = "last"
    <3>1. /\ ShowingRole' <=> ShowingRole
          /\ Old' = Old
      BY <1>2, <1>4, <1>5, <2>1 DEF ShowingRole, Old
    <3>2. m_stable_state \in Old
      BY <1>1, <1>4, <1>5, <2>1
         DEF RoleInv, RoleKnown, RtcShows, Old, ShowingRole
    <3>3. m_stable_state = "BONDING"
      BY <1>1, <1>4, <1>5, <2>1
         DEF RoleInv, RoleKnown, RtcShows, ShowingRole
    <3> QED  BY <1>1, <1>2, <1>4, <1>5, <2>1, <3>1, <3>2, <3>3
             DEF RoleInv, RoleKnown, RtcShows, LedsTimerKnows
  <2>2. CASE Stage(p) # "last"
    BY <1>1, <1>2, <1>4, <1>5, <2>2, ShowsKept
  <2> QED  BY <2>1, <2>2
<1>11. Patient => LedInv'
  BY <1>1, <1>2, <1>4, <1>5, <1>12 DEF LedInv, LedIsShown, PingLedEnds
<1> QED  BY <1>6, <1>7, <1>8, <1>9, <1>10, <1>11 DEF IInv

\* A new role is recorded, and will be shown at once.
LEMMA SetConnectionPreserves ==
    ASSUME IInv, NEW c \in Contexts, SetConnection(c), UNCHANGED <<openthread, expiries>>
    PROVE  IInv'
<1>1. /\ TypeOK /\ ProgramsOK /\ PingInv /\ BlinkIsTimed
      /\ Patient => RoleInv /\ LedInv
  BY DEF IInv
<1>2. /\ UNCHANGED <<led, m_stable_state, m_indicating_ping, timers, read>>
      /\ UNCHANGED <<role, changed, expiries>> /\ Runs(c)
  BY DEF SetConnection, At, openthread
<1>3. PICK p \in Programs, q \in Programs :
         /\ Moves(c, p, q)
         /\ \/ p = SetsRole("IDLE") /\ q = Off1 /\ m_connection_state' = "IDLE"
            \/ p = SetsRole("BONDING") /\ q = Blink1 /\ m_connection_state' = "BONDING"
            \/ p = SetsRole("CONNECTED") /\ q = On1 /\ m_connection_state' = "CONNECTED"
  <2>1. PICK i \in Indications : Moves(c, SetsRole(i), ShowsFrom(i)) /\ m_connection_state' = i
    BY <1>1, SetConnectionIs
  <2>2. SetsRole(i) \in Programs /\ ShowsFrom(i) \in Programs
    BY <1>1, <2>1, WhoRunsWhat DEF ProgramsOK, Moves
  <2> QED  BY <2>1, <2>2 DEF ShowsFrom, Indications
<1>4. /\ todo' \in [Contexts -> Programs]
      /\ \/ c = "main" /\ Main = p /\ Main' = q /\ Rtc = <<>> /\ Rtc' = <<>>
         \/ c = "rtc" /\ Rtc = p /\ Rtc' = q /\ Main' = Main
  BY <1>1, <1>2, <1>3, OneMoves
<1>5. /\ m_connection_state' \in Indications
      /\ Show(p) = "none" /\ Stage(p) \in {"sets", "other"} /\ Phase(p) = "none"
      /\ Show(q) = m_connection_state' /\ Phase(q) = "none"
      /\ IF m_connection_state' = "BONDING" THEN Stage(q) = "other"
                                            ELSE Stage(p) = "sets" /\ Stage(q) = "first"
      /\ Show(<<>>) = "none" /\ Phase(<<>>) = "none" /\ Stage(<<>>) = "other"
  BY <1>3, ShowOf, PhaseOf, StageOf DEF Indications
<1>12. c = "main"
  BY <1>1, <1>3, <1>4, WhoRunsWhat DEF ProgramsOK, Indications
<1>6. TypeOK'
  BY <1>1, <1>2, <1>4, <1>5 DEF TypeOK
<1>7. ProgramsOK'
  BY <1>1, <1>3, <1>4, <1>12, WhoRunsWhat DEF ProgramsOK, Common
<1>8. PingInv'
  BY <1>1, <1>2, <1>4, <1>5, <1>12, PingsKept
<1>9. BlinkIsTimed'
  BY <1>1, <1>2, <1>4, <1>5, <1>12 DEF BlinkIsTimed
<1>10. Patient => RoleInv'
  <2> HAVE Patient
  <2>1. ShowingRole'
    BY <1>4, <1>5, <1>12 DEF ShowingRole, Indications
  <2>2. RoleKnown' /\ RtcShows'
    BY <1>4, <1>5, <1>12, <2>1 DEF RoleKnown, RtcShows
  <2>3. "leds" \in timers => m_stable_state \in Old'
    <3>1. CASE m_connection_state' = "BONDING"
      BY <1>1, <2>1, <3>1 DEF Old, TypeOK
    <3>2. CASE m_connection_state' # "BONDING"
      <4>1. "leds" \in timers => m_stable_state = "BONDING"
        BY <1>1, <1>4, <1>5, <1>12, <3>2 DEF RoleInv, LedsTimerKnows
      <4> QED  BY <2>1, <3>2, <4>1 DEF Old
    <3> QED  BY <3>1, <3>2
  <2>4. LedsTimerKnows'
    BY <1>2, <1>4, <1>5, <1>12, <2>3 DEF LedsTimerKnows
  <2> QED  BY <2>2, <2>4 DEF RoleInv
<1>11. Patient => LedInv'
  BY <1>1, <1>2, <1>4, <1>5, <1>12 DEF LedInv, LedIsShown, PingLedEnds
<1> QED  BY <1>6, <1>7, <1>8, <1>9, <1>10, <1>11 DEF IInv

\* The end of a ping shows the role that main has recorded, which main may be
\* about to show as well.
LEMMA RestorePreserves ==
    ASSUME IInv, NEW c \in Contexts, Restore(c), UNCHANGED <<openthread, expiries>>
    PROVE  IInv'
<1>1. /\ TypeOK /\ ProgramsOK /\ PingInv /\ BlinkIsTimed
      /\ Patient => RoleInv /\ LedInv
  BY DEF IInv
<1>2. /\ UNCHANGED <<led, m_connection_state, m_stable_state, m_indicating_ping, timers, read>>
      /\ UNCHANGED <<role, changed, expiries>> /\ Runs(c)
  BY DEF Restore, At, openthread, bsp
<1>3. PICK p \in Programs, q \in Programs :
         /\ Moves(c, p, q) /\ p = End2
         /\ \/ q = Off1 /\ m_connection_state = "IDLE"
            \/ q = Blink1 /\ m_connection_state = "BONDING"
            \/ q = On1 /\ m_connection_state = "CONNECTED"
  <2>1. Moves(c, End2, ShowsFrom(m_connection_state)) /\ m_connection_state \in Indications
    BY <1>1, RestoreIs DEF TypeOK
  <2>2. End2 \in Programs /\ ShowsFrom(m_connection_state) \in Programs
    BY <2>1, WhoRunsWhat
  <2> QED  BY <2>1, <2>2 DEF ShowsFrom, Indications
<1>4. /\ todo' \in [Contexts -> Programs]
      /\ \/ c = "main" /\ Main = p /\ Main' = q /\ Rtc = <<>> /\ Rtc' = <<>>
         \/ c = "rtc" /\ Rtc = p /\ Rtc' = q /\ Main' = Main
  BY <1>1, <1>2, <1>3, OneMoves
<1>5. /\ Show(p) = "none" /\ Stage(p) = "other" /\ Phase(p) = "ends"
      /\ Show(q) = m_connection_state /\ Phase(q) = "none"
      /\ IF m_connection_state = "BONDING" THEN Stage(q) = "other" ELSE Stage(q) = "first"
  BY <1>3, ShowOf, PhaseOf, StageOf
<1>12. c = "rtc"
  BY <1>1, <1>3, <1>4, WhoRunsWhat DEF ProgramsOK
<1>6. TypeOK'
  BY <1>1, <1>2, <1>4 DEF TypeOK
<1>7. ProgramsOK'
  BY <1>1, <1>3, <1>4, <1>12, WhoRunsWhat DEF ProgramsOK, Common
<1>8. PingInv'
  BY <1>1, <1>2, <1>4, <1>5, <1>12, PingsKept
<1>9. BlinkIsTimed'
  BY <1>1, <1>2, <1>4, <1>5, <1>12 DEF BlinkIsTimed
<1>10. Patient => RoleInv'
  <2> HAVE Patient
  <2>1. /\ ShowingRole' <=> ShowingRole
        /\ Old' = Old
    BY <1>2, <1>4, <1>12 DEF ShowingRole, Old
  <2>2. m_connection_state \in Old
    BY <1>1 DEF Old, TypeOK
  <2> QED  BY <1>1, <1>2, <1>4, <1>5, <1>12, <2>1, <2>2
           DEF RoleInv, RoleKnown, RtcShows, LedsTimerKnows
<1>11. Patient => LedInv'
  BY <1>1, <1>2, <1>4, <1>5, <1>12 DEF LedInv, LedIsShown, PingLedEnds
<1> QED  BY <1>6, <1>7, <1>8, <1>9, <1>10, <1>11 DEF IInv

\* A ping that begins has all its toggles left.
LEMMA SetPingPreserves ==
    ASSUME IInv, NEW c \in Contexts, SetPing(c), UNCHANGED <<openthread, expiries>>
    PROVE  IInv'
<1>1. /\ TypeOK /\ ProgramsOK /\ PingInv /\ BlinkIsTimed
      /\ Patient => RoleInv /\ LedInv
  BY DEF IInv
<1>2. /\ UNCHANGED <<led, m_connection_state, m_stable_state, timers, read>>
      /\ UNCHANGED <<role, changed, expiries>> /\ Runs(c)
      /\ m_indicating_ping' = NumToggles
  BY DEF SetPing, At, openthread
<1>3. PICK p \in Programs, q \in Programs : Moves(c, p, q) /\ p = Ping1 /\ q = Ping2
  BY <1>1, CountingIs, WhoRunsWhat DEF ProgramsOK, Moves, Common, Programs
<1>4. /\ todo' \in [Contexts -> Programs]
      /\ \/ c = "main" /\ Main = p /\ Main' = q /\ Rtc = <<>> /\ Rtc' = <<>>
         \/ c = "rtc" /\ Rtc = p /\ Rtc' = q /\ Main' = Main
  BY <1>1, <1>2, <1>3, OneMoves
<1>5. /\ Show(p) = "none" /\ Stage(p) = "other" /\ Show(q) = "none" /\ Stage(q) = "other"
      /\ Phase(q) = "loads" /\ Phase(<<>>) = "none"
  BY <1>3, ShowOf, PhaseOf, StageOf
<1>12. c = "main"
  BY <1>1, <1>3, <1>4, WhoRunsWhat DEF ProgramsOK
<1>13. NumToggles \in Nat /\ expiries \in Nat /\ m_indicating_ping' > 0
  BY <1>1, <1>2, CountsAreNumbers
<1>6. TypeOK'
  BY <1>1, <1>2, <1>4, <1>13 DEF TypeOK
<1>7. ProgramsOK'
  BY <1>1, <1>3, <1>4, <1>12, WhoRunsWhat DEF ProgramsOK, Common
<1>8. PingInv'
  <2>1. Pending' = 0
    BY <1>4, <1>5, <1>12 DEF Pending
  <2>2. MainCounts'
    BY <1>2, <1>4, <1>5, <1>12, <1>13, <2>1 DEF MainCounts
  <2> QED  BY <1>4, <1>5, <1>12, <1>13, <2>2 DEF PingInv, PingsCount, PingIsTimed, Busy
<1>9. BlinkIsTimed'
  BY <1>1, <1>2, <1>4, <1>5, ShowsKept
<1>10. Patient => RoleInv'
  BY <1>1, <1>2, <1>4, <1>5, ShowsKept
<1>11. Patient => LedInv'
  BY <1>13 DEF LedInv, LedIsShown, PingLedEnds
<1> QED  BY <1>6, <1>7, <1>8, <1>9, <1>10, <1>11 DEF IInv

\* To read the toggles left keeps the invariant.
LEMMA LoadPingPreserves ==
    ASSUME IInv, NEW c \in Contexts, LoadPing(c), UNCHANGED <<openthread, expiries>>
    PROVE  IInv'
<1>1. /\ TypeOK /\ ProgramsOK /\ PingInv /\ BlinkIsTimed
      /\ Patient => RoleInv /\ LedInv
  BY DEF IInv
<1>2. /\ UNCHANGED <<led, m_connection_state, m_stable_state, m_indicating_ping, timers>>
      /\ UNCHANGED <<role, changed, expiries>> /\ Runs(c)
      /\ read' = [read EXCEPT ![c] = m_indicating_ping]
  BY DEF LoadPing, At, openthread, bsp, Reads
<1>3. PICK p \in Programs, q \in Programs : Moves(c, p, q) /\ p = Ping2 /\ q = Ping3
  BY <1>1, CountingIs, WhoRunsWhat DEF ProgramsOK, Moves, Common, Programs
<1>4. /\ todo' \in [Contexts -> Programs]
      /\ \/ c = "main" /\ Main = p /\ Main' = q /\ Rtc = <<>> /\ Rtc' = <<>>
         \/ c = "rtc" /\ Rtc = p /\ Rtc' = q /\ Main' = Main
  BY <1>1, <1>2, <1>3, OneMoves
<1>5. /\ Show(p) = "none" /\ Stage(p) = "other" /\ Show(q) = "none" /\ Stage(q) = "other"
      /\ Phase(p) = "loads" /\ Phase(q) = "counts" /\ Phase(<<>>) = "none"
  BY <1>3, ShowOf, PhaseOf, StageOf
<1>12. read'[c] = m_indicating_ping /\ \A d \in Contexts \ {c} : read'[d] = read[d]
  BY <1>1, <1>2 DEF TypeOK
<1>6. TypeOK'
  BY <1>1, <1>2, <1>4 DEF TypeOK
<1>7. ProgramsOK'
  BY <1>1, <1>3, <1>4, WhoRunsWhat DEF ProgramsOK, Common
<1>8. PingInv'
  <2>1. Pending' = Pending /\ (c = "main" => Pending = 0)
    BY <1>4, <1>5 DEF Pending
  <2>2. PingsCount'
    BY <1>1, <1>2, <1>4, <1>5, <1>12 DEF PingInv, PingsCount, Busy
  <2>3. MainCounts'
    <3>1. CASE c = "main"
      <4>1. m_indicating_ping + expiries >= NumToggles
        BY <1>1, <1>4, <1>5, <2>1, <3>1, CountsAreNumbers DEF PingInv, MainCounts
      <4> QED  BY <1>2, <1>4, <1>5, <1>12, <3>1, <4>1 DEF MainCounts
    <3>2. CASE c = "rtc"
      BY <1>1, <1>2, <1>4, <1>12, <2>1, <3>2 DEF PingInv, MainCounts, Contexts
    <3> QED  BY <3>1, <3>2 DEF Contexts
  <2>4. PingIsTimed'
    BY <1>4, <1>5 DEF PingIsTimed, Busy
  <2> QED  BY <2>2, <2>3, <2>4 DEF PingInv
<1>9. BlinkIsTimed'
  BY <1>1, <1>2, <1>4, <1>5, ShowsKept
<1>10. Patient => RoleInv'
  BY <1>1, <1>2, <1>4, <1>5, ShowsKept
<1>11. Patient => LedInv'
  BY <1>1, <1>2, <1>4, <1>5, LedsKept
<1> QED  BY <1>6, <1>7, <1>8, <1>9, <1>10, <1>11 DEF IInv

\* A byte that is not zero, decremented.
LEMMA ByteDecrement ==
    ASSUME NEW r \in Nat, r >= 1, r <= 255 PROVE (r + 255) % 256 = r - 1
OBVIOUS

\* A count is never decremented below zero, and main never ends a ping.
LEMMA DecrementPreserves ==
    ASSUME IInv, NEW c \in Contexts, DecrementPing(c), UNCHANGED <<openthread, expiries>>
    PROVE  IInv'
<1>1. /\ TypeOK /\ ProgramsOK /\ PingInv /\ BlinkIsTimed
      /\ Patient => RoleInv /\ LedInv
  BY DEF IInv
<1>2. /\ UNCHANGED <<led, m_connection_state, m_stable_state, timers, read>>
      /\ UNCHANGED <<role, changed, expiries>> /\ Runs(c)
      /\ m_indicating_ping' = (read[c] + 255) % 256
  BY DEF DecrementPing, At, openthread
<1>3. PICK p \in Programs, q \in Programs :
         /\ Moves(c, p, q) /\ p = Ping3
         /\ \/ q = End1 /\ m_indicating_ping' = 0
            \/ q = Ping4 /\ m_indicating_ping' # 0
  BY <1>1, DecrementIs, WhoRunsWhat DEF ProgramsOK, Moves, Common, Programs
<1>4. /\ todo' \in [Contexts -> Programs]
      /\ \/ c = "main" /\ Main = p /\ Main' = q /\ Rtc = <<>> /\ Rtc' = <<>>
         \/ c = "rtc" /\ Rtc = p /\ Rtc' = q /\ Main' = Main
  BY <1>1, <1>2, <1>3, OneMoves
<1>5. /\ Show(p) = "none" /\ Stage(p) = "other" /\ Show(q) = "none" /\ Phase(p) = "counts"
      /\ \/ Phase(q) = "ends" /\ Stage(q) = "clears" /\ m_indicating_ping' = 0
         \/ Phase(q) = "toggles" /\ Stage(q) = "other" /\ m_indicating_ping' # 0
      /\ Phase(<<>>) = "none"
  BY <1>3, ShowOf, PhaseOf, StageOf
<1>12. read[c] \in Nat /\ read[c] >= 1 /\ read[c] <= NumToggles
  <2>1. CASE c = "rtc"
    BY <1>1, <1>4, <1>5, <2>1, CountsAreNumbers DEF TypeOK, PingInv, PingsCount, Busy
  <2>2. CASE c = "main"
    BY <1>1, <1>4, <1>5, <2>2, CountsAreNumbers DEF TypeOK, PingInv, MainCounts
  <2> QED  BY <2>1, <2>2 DEF Contexts
<1>13. m_indicating_ping' = read[c] - 1
  BY <1>1, <1>2, <1>12, CountsAreNumbers, ByteDecrement
<1>14. c = "main" => m_indicating_ping' > 0 /\ m_indicating_ping' + expiries >= NumToggles - 1
  BY <1>1, <1>4, <1>5, <1>12, <1>13, CountsAreNumbers DEF PingInv, MainCounts
<1>6. TypeOK'
  <2>1. m_indicating_ping' \in 0 .. NumToggles
    BY <1>1, <1>12, <1>13, CountsAreNumbers
  <2> QED  BY <1>1, <1>2, <1>4, <2>1 DEF TypeOK
<1>7. ProgramsOK'
  BY <1>1, <1>3, <1>4, <1>14, WhoRunsWhat DEF ProgramsOK, Common
<1>8. PingInv'
  <2>1. Pending' = 0 /\ (c = "rtc" => Pending = 1)
    BY <1>4, <1>5 DEF Pending
  <2>2. m_indicating_ping' > 0 \/ m_indicating_ping' = 0
    BY <1>12, <1>13
  <2>3. PingsCount'
    BY <1>1, <1>2, <1>4, <1>5, <1>14, <2>2 DEF PingInv, PingsCount, Busy
  <2>4. MainCounts'
    <3>1. CASE c = "main"
      <4>1. Phase(Main') \notin {"loads", "counts"}
        BY <1>4, <1>5, <1>14, <3>1
      <4>2. m_indicating_ping' + expiries' >= NumToggles - 1 + Pending'
        BY <1>1, <1>2, <1>12, <1>13, <1>14, <2>1, <3>1, CountsAreNumbers
      <4> QED  BY <4>1, <4>2 DEF MainCounts
    <3>2. CASE c = "rtc"
      <4>1. m_indicating_ping' = m_indicating_ping - 1
        BY <1>1, <1>4, <1>5, <1>13, <3>2 DEF PingInv, PingsCount
      <4>2. /\ Phase(Main) = "loads" => m_indicating_ping + expiries >= NumToggles + 1
            /\ Phase(Main) = "toggles" => m_indicating_ping + expiries >= NumToggles
        BY <1>1, <2>1, <3>2, CountsAreNumbers DEF PingInv, MainCounts
      <4>3. /\ Phase(Main) = "loads" => m_indicating_ping' + expiries >= NumToggles
            /\ Phase(Main) = "toggles" => m_indicating_ping' + expiries >= NumToggles - 1
        BY <1>1, <4>1, <4>2, CountsAreNumbers
      <4> QED  BY <1>1, <1>2, <1>4, <1>12, <1>13, <2>1, <3>2, <4>3, CountsAreNumbers
               DEF PingInv, MainCounts
    <3> QED  BY <3>1, <3>2 DEF Contexts
  <2>5. PingIsTimed'
    BY <1>4, <1>5, <2>2 DEF PingIsTimed, Busy
  <2> QED  BY <2>3, <2>4, <2>5 DEF PingInv
<1>9. BlinkIsTimed'
  BY <1>1, <1>2, <1>4, <1>5, ShowsKept
<1>10. Patient => RoleInv'
  BY <1>1, <1>2, <1>4, <1>5, ShowsKept
<1>11. Patient => LedInv'
  BY <1>4, <1>5, <1>12, <1>13, <1>14 DEF LedInv, LedIsShown, PingLedEnds
<1> QED  BY <1>6, <1>7, <1>8, <1>9, <1>10, <1>11 DEF IInv

\* To decide which toggle comes next keeps the invariant.
LEMMA TogglePreserves ==
    ASSUME IInv, NEW c \in Contexts, TogglePing(c), UNCHANGED <<openthread, expiries>>
    PROVE  IInv'
<1>1. /\ TypeOK /\ ProgramsOK /\ PingInv /\ BlinkIsTimed
      /\ Patient => RoleInv /\ LedInv
  BY DEF IInv
<1>2. /\ UNCHANGED <<led, m_connection_state, m_stable_state, m_indicating_ping, timers, read>>
      /\ UNCHANGED <<role, changed, expiries>> /\ Runs(c)
  BY DEF TogglePing, At, openthread, bsp
<1>3. PICK p \in Programs, q \in Programs :
         Moves(c, p, q) /\ p = Ping4 /\ q \in {ToggleOn1, ToggleOff1}
  BY <1>1, ToggleIs, WhoRunsWhat DEF ProgramsOK, Moves, Common, Programs
<1>4. /\ todo' \in [Contexts -> Programs]
      /\ \/ c = "main" /\ Main = p /\ Main' = q /\ Rtc = <<>> /\ Rtc' = <<>>
         \/ c = "rtc" /\ Rtc = p /\ Rtc' = q /\ Main' = Main
  BY <1>1, <1>2, <1>3, OneMoves
<1>5. /\ Show(p) = "none" /\ Stage(p) = "other" /\ Show(q) = "none" /\ Stage(q) = "other"
      /\ Phase(p) = "toggles" /\ Phase(q) = "toggles"
  BY <1>3, ShowOf, PhaseOf, StageOf
<1>6. TypeOK'
  BY <1>1, <1>2, <1>4 DEF TypeOK
<1>7. ProgramsOK'
  BY <1>1, <1>3, <1>4, WhoRunsWhat DEF ProgramsOK, Common
<1>8. PingInv'
  BY <1>1, <1>2, <1>4, <1>5, PingsKept
<1>9. BlinkIsTimed'
  BY <1>1, <1>2, <1>4, <1>5, ShowsKept
<1>10. Patient => RoleInv'
  BY <1>1, <1>2, <1>4, <1>5, ShowsKept
<1>11. Patient => LedInv'
  BY <1>1, <1>2, <1>4, <1>5, LedsKept
<1> QED  BY <1>6, <1>7, <1>8, <1>9, <1>10, <1>11 DEF IInv

-----------------------------------------------------------------------------
(* OpenThread and the timers.                                              *)

\* The indication of a role.
LEMMA RoleIsProgram ==
    ASSUME TypeOK
    PROVE  \/ role = "disabled" /\ handle_role_change = SetsRole("IDLE")
           \/ role = "detached" /\ handle_role_change = SetsRole("BONDING")
           \/ role = "attached" /\ handle_role_change = SetsRole("CONNECTED")
BY DEF TypeOK, Roles, handle_role_change, bsp_thread_indication_set, SetsRole

\* A role that has changed is looked at with nothing else being shown; when
\* the LED has to stop blinking it has had the time for its last blink.
LEMMA StateChangedPreserves == ASSUME IInv, state_changed_callback PROVE IInv'
<1>1. /\ TypeOK /\ ProgramsOK /\ PingInv /\ BlinkIsTimed
      /\ Patient => RoleInv /\ LedInv
  BY DEF IInv
<1>2. /\ UNCHANGED <<led, m_connection_state, m_stable_state, m_indicating_ping, timers, read>>
      /\ UNCHANGED role /\ Runs("main") /\ Idle("main") /\ Idle("rtc")
      /\ expiries' = 0 /\ changed' \in BOOLEAN
      /\ todo' = [todo EXCEPT !["main"] = handle_role_change]
      /\ Patient /\ "leds" \in timers => role = "detached" \/ m_stable_state = "BONDING"
  BY DEF state_changed_callback, MainMay, Runs, bsp
<1>3. PICK p \in Programs, q \in Programs :
         /\ Moves("main", p, q) /\ p = <<>>
         /\ \/ q = SetsRole("IDLE") /\ role = "disabled"
            \/ q = SetsRole("BONDING") /\ role = "detached"
            \/ q = SetsRole("CONNECTED") /\ role = "attached"
  BY <1>1, <1>2, RoleIsProgram DEF Programs, MainPrograms, Indications, Moves, Idle
<1>4. /\ todo' \in [Contexts -> Programs]
      /\ Main = <<>> /\ Main' = q /\ Rtc = <<>> /\ Rtc' = <<>>
  BY <1>1, <1>2, <1>3, OneMoves DEF Contexts
<1>5. /\ Show(<<>>) = "none" /\ Phase(<<>>) = "none" /\ Stage(<<>>) = "other"
      /\ Show(q) = "none" /\ Phase(q) = "none"
      /\ Stage(q) = IF role = "detached" THEN "other" ELSE "sets"
  BY <1>3, ShowOf, PhaseOf, StageOf
<1>6. TypeOK'
  BY <1>1, <1>2, <1>4, BspThreadAssumption DEF TypeOK
<1>7. ProgramsOK'
  BY <1>1, <1>3, <1>4 DEF ProgramsOK, MainPrograms, Indications
<1>8. PingInv'
  BY <1>1, <1>2, <1>4, <1>5, PingsKept DEF Busy
<1>9. BlinkIsTimed'
  BY <1>1, <1>2, <1>4, <1>5 DEF BlinkIsTimed
<1>10. Patient => RoleInv'
  <2> HAVE Patient
  <2>1. ~ShowingRole /\ ~ShowingRole' /\ Old' = Old
    BY <1>2, <1>4, <1>5 DEF ShowingRole, Old
  <2>2. RoleKnown' /\ RtcShows'
    BY <1>1, <1>2, <1>4, <1>5, <2>1 DEF RoleInv, RoleKnown, RtcShows
  <2>3. LedsTimerKnows'
    BY <1>1, <1>2, <1>4, <1>5, <2>1 DEF RoleInv, LedsTimerKnows
  <2> QED  BY <2>2, <2>3 DEF RoleInv
<1>11. Patient => LedInv'
  BY <1>1, <1>2, <1>4, <1>5, LedsKept
<1> QED  BY <1>6, <1>7, <1>8, <1>9, <1>10, <1>11 DEF IInv

\* A ping arrives with nothing else being shown.
LEMMA PingPreserves == ASSUME IInv, icmp_receive_callback PROVE IInv'
<1>1. /\ TypeOK /\ ProgramsOK /\ PingInv /\ BlinkIsTimed
      /\ Patient => RoleInv /\ LedInv
  BY DEF IInv
<1>2. /\ UNCHANGED <<led, m_connection_state, m_stable_state, m_indicating_ping, timers, read>>
      /\ UNCHANGED <<role, changed>> /\ Runs("main") /\ Idle("main") /\ Idle("rtc")
      /\ expiries' = 0
      /\ todo' = [todo EXCEPT !["main"] = Ping1]
  BY PingIsProgram DEF icmp_receive_callback, MainMay, Runs, bsp, openthread
<1>3. PICK p \in Programs, q \in Programs : Moves("main", p, q) /\ p = <<>> /\ q = Ping1
  BY <1>1, <1>2 DEF Programs, MainPrograms, Moves, Idle
<1>4. /\ todo' \in [Contexts -> Programs]
      /\ Main = <<>> /\ Main' = q /\ Rtc = <<>> /\ Rtc' = <<>>
  BY <1>1, <1>2, <1>3, OneMoves DEF Contexts
<1>5. /\ Show(<<>>) = "none" /\ Phase(<<>>) = "none" /\ Stage(<<>>) = "other"
      /\ Show(q) = "none" /\ Phase(q) = "asks" /\ Stage(q) = "other"
  BY <1>3, ShowOf, PhaseOf, StageOf
<1>6. TypeOK'
  BY <1>1, <1>2, <1>4, BspThreadAssumption DEF TypeOK
<1>7. ProgramsOK'
  BY <1>1, <1>3, <1>4 DEF ProgramsOK, MainPrograms
<1>8. PingInv'
  BY <1>1, <1>2, <1>4, <1>5 DEF PingInv, PingsCount, MainCounts, PingIsTimed, Busy
<1>9. BlinkIsTimed'
  BY <1>1, <1>2, <1>4, <1>5, ShowsKept
<1>10. Patient => RoleInv'
  BY <1>1, <1>2, <1>4, <1>5, ShowsKept
<1>11. Patient => LedInv'
  BY <1>1, <1>2, <1>4, <1>5, LedsKept
<1> QED  BY <1>6, <1>7, <1>8, <1>9, <1>10, <1>11 DEF IInv

\* The leds timer shows the stable indication again, wherever main is.
LEMMA LedsTimerPreserves == ASSUME IInv, leds_timer_handler PROVE IInv'
<1>1. /\ TypeOK /\ ProgramsOK /\ PingInv /\ BlinkIsTimed
      /\ Patient => RoleInv /\ LedInv
  BY DEF IInv
<1>2. /\ UNCHANGED <<led, m_connection_state, m_stable_state, m_indicating_ping, read>>
      /\ UNCHANGED <<role, changed, expiries>> /\ Runs("rtc") /\ Idle("rtc")
      /\ "leds" \in timers /\ timers' = timers \ {"leds"}
      /\ todo' = [todo EXCEPT !["rtc"] = bsp_led_indication(m_stable_state)]
  BY DEF leds_timer_handler, Fires, Runs, openthread
<1>3. PICK p \in Programs, q \in Programs :
         /\ Moves("rtc", p, q) /\ p = <<>>
         /\ \/ q = Off1 /\ m_stable_state = "IDLE"
            \/ q = Blink1 /\ m_stable_state = "BONDING"
            \/ q = On1 /\ m_stable_state = "CONNECTED"
  <2>1. m_stable_state \in Indications
    BY <1>1 DEF TypeOK
  <2>2. Moves("rtc", <<>>, ShowsFrom(m_stable_state))
    BY <1>2, <2>1, IndicationIsProgram DEF Moves, Idle
  <2>3. <<>> \in Programs /\ ShowsFrom(m_stable_state) \in Programs
    BY <2>1, WhoRunsWhat DEF Common
  <2> QED  BY <2>1, <2>2, <2>3 DEF ShowsFrom, Indications
<1>4. /\ todo' \in [Contexts -> Programs]
      /\ Rtc = <<>> /\ Rtc' = q /\ Main' = Main
  BY <1>1, <1>2, <1>3, OneMoves DEF Contexts
<1>5. /\ Show(<<>>) = "none" /\ Phase(<<>>) = "none" /\ Stage(<<>>) = "other"
      /\ Show(q) = m_stable_state /\ Phase(q) = "none"
      /\ IF m_stable_state = "BONDING" THEN Stage(q) = "other" ELSE Stage(q) = "first"
  BY <1>3, ShowOf, PhaseOf, StageOf
<1>6. TypeOK'
  BY <1>1, <1>2, <1>4 DEF TypeOK
<1>7. ProgramsOK'
  BY <1>1, <1>3, <1>4, WhoRunsWhat DEF ProgramsOK, Common
<1>8. PingInv'
  BY <1>1, <1>2, <1>4, <1>5, PingsKept
<1>9. BlinkIsTimed'
  BY <1>2, <1>4, <1>5 DEF BlinkIsTimed
<1>10. Patient => RoleInv'
  <2> HAVE Patient
  <2>1. /\ ShowingRole' <=> ShowingRole
        /\ Old' = Old
    BY <1>2, <1>4 DEF ShowingRole, Old
  <2>2. m_stable_state \in Old
    BY <1>1, <1>2 DEF RoleInv, LedsTimerKnows
  <2> QED  BY <1>1, <1>2, <1>4, <1>5, <2>1, <2>2
           DEF RoleInv, RoleKnown, RtcShows, LedsTimerKnows
<1>11. Patient => LedInv'
  BY <1>1, <1>2, <1>4, <1>5 DEF LedInv, LedIsShown, PingLedEnds
<1> QED  BY <1>6, <1>7, <1>8, <1>9, <1>10, <1>11 DEF IInv

\* The ping timer expires, wherever main is: the toggle it is about to count
\* is paid for by the expiry.
LEMMA PingTimerPreserves == ASSUME IInv, ping_led_timer_handler PROVE IInv'
<1>1. /\ TypeOK /\ ProgramsOK /\ PingInv /\ BlinkIsTimed
      /\ Patient => RoleInv /\ LedInv
  BY DEF IInv
<1>2. /\ UNCHANGED <<led, m_connection_state, m_stable_state, m_indicating_ping, read>>
      /\ UNCHANGED <<role, changed>> /\ Runs("rtc") /\ Idle("rtc")
      /\ "ping" \in timers /\ timers' = timers \ {"ping"}
      /\ todo' = [todo EXCEPT !["rtc"] = Ping2]
      /\ Idle("main") \/ expiries < MaxExpiries
      /\ expiries' = IF Idle("main") THEN 0 ELSE expiries + 1
  BY PingIsProgram DEF ping_led_timer_handler, Fires, Runs, openthread
<1>3. PICK p \in Programs, q \in Programs : Moves("rtc", p, q) /\ p = <<>> /\ q = Ping2
  BY <1>1, <1>2, WhoRunsWhat DEF Common, Programs, Moves, Idle
<1>4. /\ todo' \in [Contexts -> Programs]
      /\ Rtc = <<>> /\ Rtc' = q /\ Main' = Main
  BY <1>1, <1>2, <1>3, OneMoves DEF Contexts
<1>5. /\ Show(<<>>) = "none" /\ Phase(<<>>) = "none" /\ Stage(<<>>) = "other"
      /\ Show(q) = "none" /\ Phase(q) = "loads" /\ Stage(q) = "other"
  BY <1>3, ShowOf, PhaseOf, StageOf
<1>6. TypeOK'
  <2>1. expiries' \in 0 .. MaxExpiries
    BY <1>1, <1>2, BspThreadAssumption DEF TypeOK
  <2> QED  BY <1>1, <1>2, <1>4, <2>1 DEF TypeOK
<1>7. ProgramsOK'
  BY <1>1, <1>3, <1>4, WhoRunsWhat DEF ProgramsOK, Common
<1>8. PingInv'
  <2>1. Pending' = 1 /\ Pending = 0
    BY <1>4, <1>5 DEF Pending
  <2>2. MainCounts'
    <3>1. CASE Main = <<>>
      BY <1>4, <1>5, <3>1 DEF MainCounts
    <3>2. CASE Main # <<>>
      <4>1. expiries' = expiries + 1
        BY <1>2, <3>2 DEF Idle, Main
      <4>2. /\ Phase(Main) = "loads" => m_indicating_ping + (expiries + 1) >= NumToggles + 1
            /\ Phase(Main) = "counts" => read["main"] + (expiries + 1) >= NumToggles
            /\ Phase(Main) = "toggles" =>
                 m_indicating_ping + (expiries + 1) >= NumToggles - 1 + 1
        BY <1>1, <2>1, CountsAreNumbers DEF PingInv, MainCounts, Contexts
      <4> QED  BY <1>2, <1>4, <2>1, <4>1, <4>2 DEF MainCounts
    <3> QED  BY <3>1, <3>2
  <2>3. PingsCount'
    BY <1>1, <1>2, <1>4, <1>5 DEF PingInv, PingsCount, Busy
  <2>4. PingIsTimed'
    BY <1>4, <1>5 DEF PingIsTimed, Busy
  <2> QED  BY <2>2, <2>3, <2>4 DEF PingInv
<1>9. BlinkIsTimed'
  BY <1>1, <1>2, <1>4, <1>5, ShowsKept
<1>10. Patient => RoleInv'
  BY <1>1, <1>2, <1>4, <1>5, ShowsKept
<1>11. Patient => LedInv'
  BY <1>1, <1>2, <1>4, <1>5, LedsKept
<1> QED  BY <1>6, <1>7, <1>8, <1>9, <1>10, <1>11 DEF IInv

\* A role that changes, and a step of somebody else, leave the LEDs alone.
LEMMA OtherStepsPreserve ==
    ASSUME IInv, UNCHANGED <<bsp, todo, read, expiries>>, role' \in Roles, changed' \in BOOLEAN
    PROVE  IInv'
<1>1. /\ UNCHANGED <<led, m_connection_state, m_stable_state, m_indicating_ping, timers>>
      /\ UNCHANGED <<todo, read, expiries, Main, Rtc>>
  BY DEF Main, Rtc, bsp
<1>2. TypeOK' /\ ProgramsOK'
  BY <1>1 DEF IInv, TypeOK, ProgramsOK
<1>3. PingInv' /\ BlinkIsTimed'
  BY <1>1, PingsKept, ShowsKept DEF IInv
<1>4. Patient => RoleInv' /\ LedInv'
  BY <1>1, ShowsKept, LedsKept DEF IInv
<1> QED  BY <1>2, <1>3, <1>4 DEF IInv

-----------------------------------------------------------------------------
(* The invariant, and what it says when the programs are through.          *)

\* After bsp_thread_init nothing is shown.
LEMMA InitInvariant == Init => IInv
<1> SUFFICES ASSUME Init PROVE IInv
  OBVIOUS
<1>1. Main = <<>> /\ Rtc = <<>>
  BY DEF Init, Main, Rtc, Contexts
<1>2. Show(<<>>) = "none" /\ Phase(<<>>) = "none" /\ Stage(<<>>) = "other"
  BY ShowOf, PhaseOf, StageOf
<1>3. TypeOK
  <2>1. led \in [{"connection", "commissioning"} -> BOOLEAN]
    <3> DEFINE off == [connection |-> FALSE, commissioning |-> FALSE]
    <3>1. off \in [connection : BOOLEAN, commissioning : BOOLEAN]
      BY Zenon
    <3>2. \A r \in [connection : BOOLEAN, commissioning : BOOLEAN] :
             r \in [{"connection", "commissioning"} -> BOOLEAN]
      OBVIOUS
    <3> QED  BY <3>1, <3>2, Zenon DEF Init
  <2>2. changed \in BOOLEAN
    BY Zenon DEF Init
  <2>3. /\ m_indicating_ping \in 0 .. NumToggles
        /\ read \in [Contexts -> 0 .. NumToggles] /\ expiries \in 0 .. MaxExpiries
    BY BspThreadAssumption DEF Init
  <2>4. /\ m_connection_state \in Indications /\ m_stable_state \in Indications
        /\ timers \subseteq {"leds", "ping"} /\ role \in Roles
        /\ DOMAIN todo = Contexts
    BY DEF Init, Indications, Roles
  <2> QED  BY <2>1, <2>2, <2>3, <2>4 DEF TypeOK
<1>4. ProgramsOK
  BY <1>1 DEF Init, ProgramsOK, Programs, MainPrograms, RtcPrograms
<1>5. PingInv /\ BlinkIsTimed
  BY <1>1, <1>2 DEF Init, PingInv, PingsCount, MainCounts, PingIsTimed, BlinkIsTimed, Busy
<1>6. /\ m_connection_state = "IDLE" /\ m_stable_state = "IDLE" /\ timers = {}
      /\ ~led.connection /\ ~led.commissioning
  BY DEF Init
<1>7. RoleInv /\ LedInv
  BY <1>1, <1>2, <1>6 DEF RoleInv, RoleKnown, RtcShows, LedsTimerKnows, LedInv,
     LedIsShown, PingLedEnds, ShowingRole
<1> QED  BY <1>3, <1>4, <1>5, <1>7 DEF IInv

\* Every step keeps the invariant.
LEMMA StepInvariant == IInv /\ [Next]_vars => IInv'
<1> SUFFICES ASSUME IInv, [Next]_vars PROVE IInv'
  OBVIOUS
<1>1. ASSUME NEW c \in Contexts, Step(c) PROVE IInv'
  <2>1. UNCHANGED <<openthread, expiries>>
    BY <1>1 DEF Step
  <2> QED  BY <1>1, <2>1, LedWritePreserves, InvertReadsPreserves, InvertWritesPreserves,
              SetStablePreserves, StartPreserves, SetConnectionPreserves, RestorePreserves,
              SetPingPreserves, LoadPingPreserves, DecrementPreserves, TogglePreserves
           DEF Step
<1>2. CASE ChangeRole
  BY <1>2, OtherStepsPreserve DEF ChangeRole
<1>3. CASE state_changed_callback
  BY <1>3, StateChangedPreserves
<1>4. CASE icmp_receive_callback
  BY <1>4, PingPreserves
<1>5. CASE leds_timer_handler
  BY <1>5, LedsTimerPreserves
<1>6. CASE ping_led_timer_handler
  BY <1>6, PingTimerPreserves
<1>7. CASE UNCHANGED vars
  BY <1>7, OtherStepsPreserve DEF vars, openthread, IInv, TypeOK
<1> QED  BY <1>1, <1>2, <1>3, <1>4, <1>5, <1>6, <1>7 DEF Next

\* The invariant always holds.
LEMMA Invariant == Spec => []IInv
<1> HIDE DEF IInv, Init, Next, vars
<1> QED  BY InitInvariant, StepInvariant, PTL DEF Spec

\* What has still to be done, when nothing is being shown, is timed.
LEMMA BlinkingIsTimedThen == IInv => BlinkingIsTimed
<1> SUFFICES ASSUME IInv, MainMay
             PROVE  /\ m_stable_state = "BONDING" => "leds" \in timers
                    /\ m_indicating_ping > 0 => "ping" \in timers
  BY DEF BlinkingIsTimed
<1>1. Main = <<>> /\ Rtc = <<>>
  BY DEF MainMay, Idle, Main, Rtc
<1>2. Show(<<>>) = "none" /\ Phase(<<>>) = "none"
  BY ShowOf, PhaseOf
<1> QED  BY <1>1, <1>2 DEF IInv, PingInv, PingIsTimed, BlinkIsTimed, Busy

\* What nobody has still to do is done.
LEMMA QuietShowsRoleThen == ASSUME Patient PROVE IInv => QuietShowsRole
<1> SUFFICES ASSUME IInv, MainMay, timers = {}
             PROVE  /\ led.connection = (m_connection_state = "CONNECTED")
                    /\ ~led.commissioning
                    /\ m_stable_state = m_connection_state
  BY DEF QuietShowsRole
<1>1. Main = <<>> /\ Rtc = <<>>
  BY DEF MainMay, Idle, Main, Rtc
<1>2. Show(<<>>) = "none" /\ Phase(<<>>) = "none" /\ Stage(<<>>) = "other"
  BY ShowOf, PhaseOf, StageOf
<1>3. ~(m_indicating_ping > 0)
  BY <1>1, <1>2 DEF IInv, PingInv, PingIsTimed, Busy
<1>4. m_stable_state # "BONDING"
  BY <1>1, <1>2 DEF IInv, BlinkIsTimed
<1>5. m_stable_state = m_connection_state
  BY <1>1, <1>2 DEF IInv, RoleInv, RoleKnown, ShowingRole
<1>6. led.connection <=> m_connection_state = "CONNECTED"
  BY <1>1, <1>2, <1>3, <1>4, <1>5 DEF IInv, LedInv, LedIsShown
<1>7. ~led.commissioning
  BY <1>1, <1>2, <1>3 DEF IInv, LedInv, PingLedEnds
<1>8. led.connection \in BOOLEAN
  BY DEF IInv, TypeOK
<1>9. led.connection = (m_connection_state = "CONNECTED")
  BY <1>6, <1>8
<1> QED  BY <1>5, <1>7, <1>9

\* Every variable keeps its type: a count of toggles never goes below zero,
\* although the timer of one ping may expire while main begins another.
THEOREM BspThreadTypeOK == Spec => []TypeOK
<1>1. IInv => TypeOK
  BY DEF IInv
<1> QED  BY <1>1, Invariant, PTL

\* No order of callbacks, expiries and preemptions leaves an indication that
\* blinks, or a ping that has toggles left, without its timer.
THEOREM BlinkingStaysTimed == Spec => []BlinkingIsTimed
BY BlinkingIsTimedThen, Invariant, PTL

\* Where the last blink has the time to end, the LEDs show the last role
\* when no timer runs any more, whatever the timers have preempted.
THEOREM QuietLedsShowRole == ASSUME Patient PROVE Spec => []QuietShowsRole
BY QuietShowsRoleThen, Invariant, PTL
=============================================================================
