----------------------------- MODULE AlarmClock ------------------------------
(***************************************************************************)
(* The alarm clock, 6-Alarm/Alarm.c: the main program shows the clock face *)
(* or one of three settings pages and runs the alarm (sAlarm); the Timer 3 *)
(* interrupt plays alarm.mp3 while it rings; the real-time clock runs on.  *)
(* Main and interrupt share sAlarm and the file fp. A step of main is      *)
(* possible only while the interrupt is not running.                       *)
(***************************************************************************)
EXTENDS Integers

CONSTANTS
    HOURS, MINUTES, SECONDS,    \* 24, 60, 60
    STEP,                       \* minutes an arrow moves the alarm by: 10
    SNOOZE_TIME,                \* minutes: 8
    FirstTime, FirstAlarm,      \* what initApp and InitRTCC set
    Present,                    \* was alarm.mp3 found?
    FILE, BUFFER                \* feeds of 32 bytes in the file, in the buffer

ASSUME ClockAssumption ==
    /\ HOURS \in Nat \ {0} /\ MINUTES \in Nat \ {0} /\ SECONDS \in Nat \ 0..2
    /\ STEP \in 1..MINUTES /\ SNOOZE_TIME \in 2..MINUTES-1
    /\ FirstTime \in [hour : 0..HOURS-1, min : 0..MINUTES-1, sec : 0..SECONDS-1]
    /\ FirstAlarm \in [hour : 0..HOURS-1, min : 0..MINUTES-1, sec : 0..SECONDS-1]
    /\ \E k \in 1..MINUTES : MINUTES = k * STEP
    /\ \E k \in 0..MINUTES : FirstAlarm.min = k * STEP
    /\ Present \in BOOLEAN
    /\ FILE \in Nat /\ BUFFER \in Nat \ {0}

VARIABLES
    rtc,                \* the real-time clock
    Alarm, sAlarm,      \* the alarm time, the state of the alarm
    Snooze,             \* minutes, modulo an hour: all that is ever used of it
    fNight, bright,     \* night mode, brightness of the display in percent
    pc,                 \* where main is
    Time, sec,          \* locals of clockFaceTask: Time and nTime.f.sec
    edit,               \* local of the settings pages
    isr, length, pos,   \* BackgroundPlay: running?, buffered, read so far
    looped,             \* has the clock face gone round since the last second?
    quiet,              \* history: minutes begun since main was last blocked
                        \* or sAlarm changed, up to SNOOZE_TIME + 1
    rang                \* history: the minute the alarm rang for, or never

play == <<isr, length, pos>>
alarm == <<Alarm, sAlarm, Snooze>>
locals == <<Time, sec, edit>>
display == <<fNight, bright>>
history == <<quiet, rang>>
face == <<alarm, display, pc, locals>>      \* what belongs to main
vars == <<rtc, face, play, looped, history>>

Minute(time) == <<time.hour, time.min>>
Never == <<>>

Midnight == [hour |-> 0, min |-> 0, sec |-> 0]
Pages == {"CLOCK_SET", "ALARM_SET", "DATE_SET"}
Blocked == pc \in Pages \cup {"grid"}

Init ==
    /\ rtc = FirstTime
    /\ Alarm = FirstAlarm /\ sAlarm = "ON" /\ Snooze = 0
    /\ fNight = FALSE /\ bright = 100
    /\ pc = "face"
    /\ Time = Midnight /\ sec = 0 /\ edit = Midnight
    /\ isr = FALSE /\ length = 0 /\ pos = 0
    /\ looped = TRUE
    /\ quiet = 0 /\ rang = Never

-----------------------------------------------------------------------------
(***************************************************************************)
(* The real-time clock. Going round the clock face once takes less than a  *)
(* second unless the user holds main in TouchGrid.                         *)
(***************************************************************************)
Later(time) ==
    LET s == time.sec + 1
        m == time.min + s \div SECONDS
        h == time.hour + m \div MINUTES
    IN  [hour |-> h % HOURS, min |-> m % MINUTES, sec |-> s % SECONDS]

Second ==
    /\ Blocked \/ looped
    /\ rtc' = Later(rtc)
    /\ looped' = FALSE
    /\ quiet' = IF Minute(rtc') = Minute(rtc) THEN quiet
                ELSE IF Blocked THEN 0
                ELSE IF quiet > SNOOZE_TIME THEN quiet ELSE quiet + 1
    /\ UNCHANGED <<face, play, rang>>

-----------------------------------------------------------------------------
(* The interrupt: BackgroundPlay, one pass of its loop at a time.          *)
Interrupt ==
    /\ ~isr
    /\ sAlarm = "RING" /\ Present
    /\ isr' = TRUE
    /\ UNCHANGED <<rtc, face, length, pos, looped, history>>

Refill ==
    /\ isr /\ length = 0 /\ pos < FILE
    /\ length' = IF FILE - pos < BUFFER THEN FILE - pos ELSE BUFFER
    /\ pos' = pos + length'
    /\ UNCHANGED <<rtc, face, isr, looped, history>>

EndOfFile ==
    /\ isr /\ length = 0 /\ pos = FILE
    /\ pos' = 0 /\ isr' = FALSE
    /\ UNCHANGED <<rtc, face, length, looped, history>>

Feed ==
    /\ isr /\ length > 0
    /\ length' = length - 1
    /\ UNCHANGED <<rtc, face, isr, pos, looped, history>>

(* The codec is not hungry. *)
Full ==
    /\ isr /\ length > 0
    /\ isr' = FALSE
    /\ UNCHANGED <<rtc, face, length, pos, looped, history>>

BackgroundPlay == Interrupt \/ Refill \/ EndOfFile \/ Feed \/ Full

-----------------------------------------------------------------------------
(* The clock face. *)
ClockFace ==
    /\ ~isr /\ pc = "face"
    /\ Time' = rtc
    /\ pc' = "loop"
    /\ rang' = IF Minute(rtc) = rang THEN rang ELSE Never
    /\ UNCHANGED <<rtc, alarm, display, sec, edit, play, looped, quiet>>

NotTouched ==
    /\ ~isr /\ pc = "loop"
    /\ pc' = "time"
    /\ UNCHANGED <<rtc, alarm, display, locals, play, looped, history>>

(* A finger is on the screen: TouchGrid waits until it is gone.            *)
Touched ==
    /\ ~isr /\ pc = "loop"
    /\ pc' = "grid"
    /\ quiet' = 0
    /\ UNCHANGED <<rtc, alarm, display, locals, play, looped, rang>>

Dimmed == IF fNight THEN 2 ELSE bright

SnoozeTouch ==
    /\ ~isr /\ pc = "grid" /\ sAlarm = "RING"
    /\ sAlarm' = "SNOOZE" /\ bright' = Dimmed
    /\ pc' = "time"
    /\ UNCHANGED <<rtc, Alarm, Snooze, fNight, locals, play, looped, history>>

(* A long press opens a page, and so does a short one below the top row.   *)
OpenPage(page) ==
    /\ ~isr /\ pc = "grid" /\ sAlarm # "RING"
    /\ pc' = page
    /\ \/ page = "CLOCK_SET" /\ edit' = rtc
       \/ page = "ALARM_SET" /\ edit' = Alarm
       \/ page = "DATE_SET" /\ edit' = Midnight
    /\ Time' = Midnight /\ sec' = 0     \* out of scope
    /\ UNCHANGED <<rtc, alarm, display, play, looped, history>>

Toggled ==
    [ON |-> "OFF", OFF |-> "ON", SNOOZE |-> "ACK", ACK |-> "ACK"][sAlarm]

ToggleAlarm ==
    /\ ~isr /\ pc = "grid" /\ sAlarm # "RING"
    /\ sAlarm' = Toggled
    /\ pc' = "time"
    /\ UNCHANGED <<rtc, Alarm, Snooze, display, locals, play, looped, history>>

ToggleNight ==
    /\ ~isr /\ pc = "grid" /\ sAlarm # "RING"
    /\ fNight' = ~fNight
    /\ bright' = IF fNight THEN 100 ELSE 2
    /\ pc' = "time"
    /\ UNCHANGED <<rtc, alarm, locals, play, looped, history>>

(* The middle of the top row does nothing.                                 *)
TouchNothing ==
    /\ ~isr /\ pc = "grid" /\ sAlarm # "RING"
    /\ pc' = "time"
    /\ UNCHANGED <<rtc, alarm, display, locals, play, looped, history>>

ReadTime ==
    /\ ~isr /\ pc = "time"
    /\ sec' = rtc.sec
    /\ pc' = "seconds"
    /\ UNCHANGED <<rtc, alarm, display, Time, edit, play, looped, history>>

(* Slip: the time is read when the display is set up, and never again.     *)
SlipSeen(time) == Time

Seen(time) == IF Time.sec # sec THEN time ELSE Time

UpdateSeconds ==
    /\ ~isr /\ pc = "seconds"
    /\ Time' = Seen(rtc)
    /\ pc' = "alarm"
    /\ rang' = IF Minute(Time') = rang THEN rang ELSE Never
    /\ UNCHANGED <<rtc, alarm, display, sec, edit, play, looped, quiet>>

(* The switch that updates the alarm.                                      *)
AlarmMatches == sAlarm = "ON" /\ Minute(Time) = Minute(Alarm)

SnoozeMatches ==
    /\ sAlarm = "SNOOZE"
    /\ Time.hour = Alarm.hour
    /\ Time.min = (Alarm.min + Snooze) % MINUTES

(* Slip: an acknowledged alarm is on again at once.                        *)
SlipAckOver == sAlarm = "ACK"

AckOver == sAlarm = "ACK" /\ Time.min # Alarm.min

(* Slip: the alarm rings before the file is rewound.                       *)
SlipRewinding == sAlarm' = "RING"

Rewinding == sAlarm' = sAlarm

(* FSrewind(fp) takes its time: the interrupt may come while it runs.      *)
StartRewind ==
    /\ ~isr /\ pc = "alarm"
    /\ AlarmMatches \/ SnoozeMatches
    /\ Rewinding
    /\ pc' = "rewind"
    /\ UNCHANGED <<rtc, Alarm, Snooze, display, locals, play, looped, history>>

Ring ==
    /\ ~isr /\ pc = "rewind"
    /\ pos' = 0
    /\ sAlarm' = "RING"
    /\ Snooze' = (SNOOZE_TIME + IF sAlarm = "SNOOZE" THEN Snooze ELSE 0) % MINUTES
    /\ bright' = 100
    /\ rang' = Minute(Time) /\ quiet' = 0
    /\ looped' = TRUE /\ pc' = "loop"
    /\ UNCHANGED <<rtc, Alarm, fNight, locals, isr, length>>

KeepAlarm ==
    /\ ~isr /\ pc = "alarm"
    /\ ~AlarmMatches /\ ~SnoozeMatches
    /\ sAlarm' = IF AckOver THEN "ON" ELSE sAlarm
    /\ quiet' = IF AckOver THEN 0 ELSE quiet
    /\ looped' = TRUE /\ pc' = "loop"
    /\ UNCHANGED <<rtc, Alarm, Snooze, display, locals, play, rang>>

ClockFaceTask ==
    \/ ClockFace \/ NotTouched \/ Touched \/ SnoozeTouch
    \/ (\E page \in Pages : OpenPage(page))
    \/ ToggleAlarm \/ ToggleNight \/ TouchNothing
    \/ ReadTime \/ UpdateSeconds \/ StartRewind \/ Ring \/ KeepAlarm

-----------------------------------------------------------------------------
(* The settings pages: arrows above and below the digits; the bar between  *)
(* them leaves the page, and saves after a long press.                     *)
Inc(n, step, sat) == IF n = sat THEN 0 ELSE n + step
Dec(n, step, sat) == IF n = 0 THEN sat ELSE n - step

MinuteStep == IF pc = "ALARM_SET" THEN STEP ELSE 1

Arrow ==
    /\ ~isr /\ pc \in {"CLOCK_SET", "ALARM_SET"}
    /\ \/ edit' = [edit EXCEPT !.hour = Inc(@, 1, HOURS - 1)]
       \/ edit' = [edit EXCEPT !.hour = Dec(@, 1, HOURS - 1)]
       \/ edit' = [edit EXCEPT !.min = Inc(@, MinuteStep, MINUTES - MinuteStep)]
       \/ edit' = [edit EXCEPT !.min = Dec(@, MinuteStep, MINUTES - MinuteStep)]
    /\ UNCHANGED <<rtc, alarm, display, pc, Time, sec, play, looped, history>>

LeavePage ==
    /\ ~isr /\ pc \in Pages
    /\ pc' = "face"
    /\ edit' = Midnight                 \* out of scope
    /\ UNCHANGED <<rtc, alarm, display, Time, sec, play, looped, history>>

SaveClock ==
    /\ ~isr /\ pc = "CLOCK_SET"
    /\ rtc' = edit /\ rang' = Never
    /\ pc' = "face" /\ edit' = Midnight
    /\ UNCHANGED <<alarm, display, Time, sec, play, looped, quiet>>

SaveAlarm ==
    /\ ~isr /\ pc = "ALARM_SET"
    /\ Alarm' = edit /\ sAlarm' = "ON" /\ rang' = Never
    /\ pc' = "face" /\ edit' = Midnight
    /\ UNCHANGED <<rtc, Snooze, display, Time, sec, play, looped, quiet>>

Settings == Arrow \/ LeavePage \/ SaveClock \/ SaveAlarm

Next == Second \/ BackgroundPlay \/ ClockFaceTask \/ Settings

Spec == Init /\ [][Next]_vars

-----------------------------------------------------------------------------
Times == [hour : 0..HOURS-1, min : 0..MINUTES-1, sec : 0..SECONDS-1]

TypeOK ==
    /\ rtc \in Times /\ Alarm \in Times /\ Time \in Times /\ edit \in Times
    /\ sAlarm \in {"OFF", "ON", "RING", "SNOOZE", "ACK"}
    /\ Snooze \in 0..MINUTES-1
    /\ fNight \in BOOLEAN /\ bright \in {2, 100}
    /\ pc \in Pages \cup {"face", "loop", "grid", "time", "seconds", "alarm",
                          "rewind"}
    /\ sec \in 0..SECONDS-1
    /\ isr \in BOOLEAN /\ length \in 0..BUFFER /\ pos \in 0..FILE
    /\ looped \in BOOLEAN /\ quiet \in 0..SNOOZE_TIME+1
    /\ rang \in {Minute(time) : time \in Times} \cup {Never}

(***************************************************************************)
(* fp belongs to main while it is being rewound: the interrupt that reads  *)
(* the file never comes inside FSrewind, although nothing but the order of *)
(* two statements keeps it out.                                            *)
(***************************************************************************)
FileIsNotShared == pc = "rewind" => ~isr

(***************************************************************************)
(* "check when time!=alarm to avoid retrigger": however it is snoozed,     *)
(* acknowledged or toggled, the alarm rings at most once in a minute of    *)
(* the clock face, unless the user saves a new time or alarm meanwhile.    *)
(***************************************************************************)
NoRetrigger ==
    [][sAlarm # "RING" /\ sAlarm' = "RING" => Minute(Time) # rang]_vars

(***************************************************************************)
(* An alarm that is on is not missed: its minute does not pass without a   *)
(* ring if main was not held up since the minute before.                   *)
(***************************************************************************)
NotMissed ==
    [][Minute(rtc) = Minute(Alarm) /\ Second /\ Minute(rtc') # Minute(rtc)
         => sAlarm # "ON" \/ quiet = 0]_vars

-----------------------------------------------------------------------------
(* What the comments say and the code does not do; see the README.         *)

(***************************************************************************)
(* Alarm.c:86, "if an mp3 file is available": the file is used only then.  *)
(***************************************************************************)
RewoundFileExists == pc = "rewind" => Present

(***************************************************************************)
(* Alarm.c:418, "check for time match": the alarm rings in its minute, or  *)
(* in the first second after it.                                           *)
(***************************************************************************)
RingsOnTime ==
    [][sAlarm = "ON" /\ sAlarm' = "RING" =>
         \/ Minute(rtc) = Minute(Alarm)
         \/ rtc = Later([Alarm EXCEPT !.sec = SECONDS - 1])]_vars

(***************************************************************************)
(* Alarm.c:30, SNOOZE_TIME is 8 "minutes", and 428, "check for time match  *)
(* + snooze factor": an alarm that was snoozed and left alone rings again  *)
(* after SNOOZE_TIME minutes.                                              *)
(***************************************************************************)
SnoozeElapses == sAlarm = "SNOOZE" => quiet <= SNOOZE_TIME
=============================================================================
