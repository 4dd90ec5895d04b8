--------------------------- MODULE EmergencyAudio ---------------------------
(***************************************************************************)
(* EmergencyAudioService: the tone a responder's browser plays for a new   *)
(* emergency.  Everything in it waits: for the browser to let the audio    *)
(* context run, for a tone to end, for the pause before a follow-up.  A    *)
(* call of playEmergencyBeep is a record in `calls' while it waits, named  *)
(* by the emergencies it is about.                                         *)
(***************************************************************************)
EXTENDS Naturals, FiniteSets

VARIABLES
  audioStatus, \* this.status
  shown,       \* the hook's audioStatus: which buttons the page has
  muted,       \* this.isMuted
  ctx,         \* this.ctx: absent, suspended by the browser, or running
  activated,   \* the user has touched the page: the browser allows sound
  armed,       \* the listeners of setupAutoUnlock are in place
  isPlaying,   \* a tone's promise is open
  tones,       \* tones whose oscillators have not ended on the context's clock
  frozen,      \* how many of them, the oldest, a suspension has interrupted
  queued,      \* emergencies the single queued follow-up is for
  calls,       \* calls that wait
  answered     \* emergencies a tone started for, or whose call found the sound off

sound == <<isPlaying, tones, frozen>>
audio == <<audioStatus, shown, muted, ctx, activated, armed, sound, queued, calls, answered>>

Call(refs, stage) == [for |-> refs, stage |-> stage]

\* What localStorage may hold from an earlier visit.
AudioInit ==
  /\ \E stored \in {<<"uninitialized", FALSE>>, <<"enabled", FALSE>>, <<"muted", TRUE>>} :
       audioStatus = stored[1] /\ shown = stored[1] /\ muted = stored[2]
  /\ ctx = "none" /\ activated \in BOOLEAN /\ armed = TRUE
  /\ isPlaying = FALSE /\ tones = 0 /\ frozen = 0
  /\ queued = {} /\ calls = {} /\ answered = {}

\* getOrCreateContext: a context made before any gesture starts suspended.
Context == IF ctx # "none" THEN ctx ELSE IF activated THEN "running" ELSE "suspended"

\* synthesizeDualPulseTone: two oscillators, scheduled on the context's clock.
StartTone == isPlaying' = TRUE /\ tones' = tones + 1 /\ UNCHANGED frozen

\* Mutant: a call that finds a tone playing is dropped.
SoundUnlessPlaying(refs, rest) ==
  /\ IF isPlaying THEN UNCHANGED <<sound, answered>>
     ELSE StartTone /\ answered' = answered \cup refs
  /\ calls' = rest
  /\ UNCHANGED queued

\* The end of playEmergencyBeep: a tone, or the one follow-up.
Sound(refs, rest) ==
  /\ calls' = rest
  /\ IF isPlaying
       THEN queued' = queued \cup refs /\ UNCHANGED <<sound, answered>>
       ELSE StartTone /\ answered' = answered \cup refs /\ UNCHANGED queued

GiveUp(refs, rest) ==
  /\ calls' = rest
  /\ answered' = answered \cup refs
  /\ UNCHANGED <<sound, queued>>

Wait(refs, stage, rest) ==
  /\ calls' = rest \cup {Call(refs, stage)}
  /\ UNCHANGED <<sound, queued, answered>>

\* playEmergencyBeep up to where it first waits, or to its end.
Beep(refs, rest) ==
  /\ UNCHANGED <<audioStatus, shown, muted, activated, armed>>
  /\ \/ /\ muted \/ audioStatus \in {"muted", "blocked"}
        /\ GiveUp(refs, rest) /\ UNCHANGED ctx
     \/ /\ ~muted /\ audioStatus = "uninitialized"
        /\ Wait(refs, "enabling", rest)
        /\ ctx' = Context
     \/ /\ ~muted /\ audioStatus = "enabled"
        /\ ctx' = Context
        /\ IF Context = "suspended"
             THEN Wait(refs, "resuming", rest)
             ELSE Sound(refs, rest)

-----------------------------------------------------------------------------
(* What the calls wait for                                                 *)

\* Before a gesture the browser keeps resume() pending, or rejects it.
MayRun == activated \/ ctx = "running"

\* The rest of enable(), and of what it was called from: an alarm goes on, the
\* button chirps and looks at the status again, the listener does neither.
Enabled(c) ==
  /\ c \in calls /\ c.stage \in {"enabling", "unlocking"} /\ MayRun
  /\ ctx' = "running" /\ muted' = FALSE /\ audioStatus' = "enabled"
  /\ IF c.for # {} THEN Sound(c.for, calls \ {c}) /\ UNCHANGED shown
     ELSE /\ calls' = calls \ {c} /\ UNCHANGED <<sound, queued, answered>>
          /\ shown' = IF c.stage = "enabling" THEN "enabled" ELSE shown
  /\ UNCHANGED <<activated, armed>>

\* Mutant: isPlaying is read before the wait and not again.
ResumeAndSound(c) ==
  /\ c \in calls /\ c.stage = "resuming" /\ MayRun
  /\ ctx' = "running"
  /\ StartTone /\ answered' = answered \cup c.for
  /\ calls' = calls \ {c}
  /\ UNCHANGED <<audioStatus, shown, muted, activated, armed, queued>>

\* Whether the sound was muted meanwhile is not looked at again.
Resumed(c) ==
  /\ c \in calls /\ c.stage = "resuming" /\ MayRun
  /\ ctx' = "running"
  /\ Sound(c.for, calls \ {c})
  /\ UNCHANGED <<audioStatus, shown, muted, activated, armed>>

Rejected(c) ==
  /\ c \in calls /\ c.stage \in {"enabling", "resuming"} /\ ~MayRun
  /\ audioStatus' = "blocked"
  /\ GiveUp(c.for, calls \ {c})
  /\ UNCHANGED <<shown, muted, ctx, activated, armed>>

\* The finally block: the follow-up is a call of its own, 150 ms later.
Resolve ==
  /\ isPlaying' = FALSE
  /\ calls' = IF queued = {} THEN calls ELSE calls \cup {Call(queued, "echo")}
  /\ queued' = {}

\* The oscillators of the oldest tone end; the last of the tones is the one whose
\* promise may be open.
ToneEnds ==
  /\ ctx = "running" /\ tones > 0
  /\ tones' = tones - 1
  /\ frozen' = IF frozen > 0 THEN frozen - 1 ELSE 0
  /\ IF isPlaying /\ tones = 1 THEN Resolve ELSE UNCHANGED <<isPlaying, queued, calls>>
  /\ UNCHANGED <<audioStatus, shown, muted, ctx, activated, armed, answered>>

\* The fallback timer.  It comes after the end of a tone (350 ms, and 300), unless
\* a suspension has stopped the clock the tone ends by.
TimerFires ==
  /\ isPlaying /\ frozen = tones
  /\ Resolve
  /\ UNCHANGED <<audioStatus, shown, muted, ctx, activated, armed, tones, frozen, answered>>

Echo(c) ==
  /\ c \in calls /\ c.stage = "echo"
  /\ Beep(c.for, calls \ {c})

-----------------------------------------------------------------------------
(* The responder and the browser                                           *)

\* From here on the browser allows sound.
Touch(new) ==
  /\ activated' = TRUE /\ armed' = FALSE
  /\ calls' = calls \cup new
  /\ ctx' = IF new # {} /\ ctx = "none" THEN "running" ELSE ctx

\* A click anywhere: the first one finds the listeners of setupAutoUnlock, which
\* it removes whether there was anything to unlock or not.
Gesture ==
  /\ Touch(IF armed /\ audioStatus \in {"uninitialized", "blocked"}
             THEN {Call({}, "unlocking")} ELSE {})
  /\ UNCHANGED <<audioStatus, shown, muted, sound, queued, answered>>

\* The buttons are those of the status the page last looked at.
EnableButton ==
  /\ shown \in {"uninitialized", "blocked"} /\ ~armed
  /\ Touch({Call({}, "enabling")})
  /\ UNCHANGED <<audioStatus, shown, muted, sound, queued, answered>>

MuteButton ==
  /\ shown \in {"enabled", "muted"} /\ ~armed
  /\ muted' = ~muted
  /\ audioStatus' = IF audioStatus \notin {"enabled", "muted"} THEN audioStatus
                    ELSE IF muted THEN "enabled" ELSE "muted"
  /\ shown' = audioStatus'
  /\ UNCHANGED <<activated, armed, ctx, sound, queued, calls, answered>>

\* playTestSound: a chirp, which neither looks at isPlaying nor sets it.  Where the
\* context has to be resumed first, the press is taken to come when it is.
TestButton ==
  /\ shown = "enabled" /\ ~armed
  /\ ctx' = "running"
  /\ UNCHANGED <<audioStatus, shown, muted, activated, armed, sound, queued, calls, answered>>

\* Power saving, a background tab: the context's clock stands still.
Suspend ==
  /\ ctx = "running"
  /\ ctx' = "suspended"
  /\ frozen' = tones
  /\ UNCHANGED <<audioStatus, shown, muted, activated, armed, isPlaying, tones, queued, calls,
                 answered>>

AudioStep ==
  \/ \E c \in calls : Enabled(c) \/ Resumed(c) \/ Rejected(c) \/ Echo(c)
  \/ ToneEnds \/ TimerFires
  \/ Gesture \/ EnableButton \/ MuteButton \/ TestButton \/ Suspend

-----------------------------------------------------------------------------
\* No tone starts beside another one that sounds, however the calls that waited
\* for the browser come back, unless a suspension had interrupted the older one.
OneToneAtATime == tones <= frozen + 1

-----------------------------------------------------------------------------
(* What the code's comments promise                                        *)

\* EmergencyAudioService: avoids overlapping, queues or sequences simultaneous
\* alerts.
NeverOverlaps == tones <= 1
=============================================================================
