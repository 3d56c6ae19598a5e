-------------------------------- MODULE Keys --------------------------------
(***************************************************************************)
(* The key matrix and the key handler of the two applications:              *)
(* kb_scan_key (drv_keyboard.c) with its release counter and debounce       *)
(* filter, and app_key_handler (app_ui.c), which starts a factory reset     *)
(* when SW1 has been held for five seconds.  One step of the main loop is   *)
(* one call of app_key_handler; time passes in ticks between them.          *)
(***************************************************************************)
EXTENDS Integers, FiniteSets, FiniteSetsExt

CONSTANTS
  KeySet,       \* the keys of the board, a subset of 1..4
  Hold,         \* the five seconds of app_key_handler, in ticks
  ReleaseCnt    \* release_cnt after a scan that saw a key (6)

SW1 == 1
NoKey == 255

VARIABLES
  down,         \* the keys that are down
  pre, last,    \* mtrx_pre, mtrx_last of key_debounce_filter
  release_cnt,  \* of kb_key_pressed
  app,          \* gDevCtx.state: "normal", "check", "doing"
  valid,        \* valid_keyCode
  elapsed,      \* ticks since keyPressedTime, up to Hold
  keyPressed,   \* gDevCtx.keyPressed: the device must not sleep
  age           \* history: ticks since SW1 was seen down in two scans, with
                \* no two scans since that saw all keys up; -1: not so

scanVars == <<pre, last, release_cnt>>
appVars  == <<app, valid, elapsed, keyPressed>>
vars == <<down, scanVars, appVars, age>>

\* What power-on leaves in RAM; the keys are where the user has them.
Ram ==
  /\ pre = {} /\ last = {} /\ release_cnt = 0
  /\ app = "normal" /\ valid = NoKey /\ elapsed = 0 /\ keyPressed = FALSE
  /\ age = -1

Init == down = {} /\ Ram

Restart ==
  /\ pre' = {} /\ last' = {} /\ release_cnt' = 0
  /\ app' = "normal" /\ valid' = NoKey /\ elapsed' = 0 /\ keyPressed' = FALSE
  /\ age' = -1
  /\ UNCHANGED down

\* External: the user, and the bounce of a contact between two scans.
Touch(k) ==
  /\ down' = IF k \in down THEN down \ {k} ELSE down \cup {k}
  /\ UNCHANGED <<scanVars, appVars, age>>

Tick ==
  /\ elapsed' = Min({Hold, elapsed + 1})
  /\ age' = IF age = -1 THEN -1 ELSE Min({Hold, age + 1})
  /\ UNCHANGED <<down, scanVars, app, valid, keyPressed>>

(***************************************************************************)
(* The scan.                                                                *)
(***************************************************************************)
\* kb_key_pressed: a scan is needed while a key is down and for a few calls
\* after.  The columns it remembers in ret_last are those of the keys down;
\* once none is down the rows read nothing in any of them.
ScanNeeded == down # {} \/ release_cnt > 0

\* Mutant: the counter is set to one.
KbKeyPressedShort ==
  release_cnt' = IF down # {} THEN 1 ELSE Max({0, release_cnt - 1})

KbKeyPressed ==
  release_cnt' = IF down # {} THEN ReleaseCnt - 1 ELSE Max({0, release_cnt - 1})

\* key_debounce_filter of the rows, which read the keys down: a key goes down
\* after two scans that saw it down and up after two that saw it up.
Filtered ==
  {k \in KeySet : IF k \in last THEN k \in pre \/ k \in down
                                ELSE k \in pre /\ k \in down}

\* Mutant: a release leaves the application's state alone.
OnKeysChangedKeepsState(keys) ==
  IF keys # {}
  THEN /\ keyPressed' = TRUE
       /\ IF Min(keys) = SW1 THEN app' = "check" /\ elapsed' = 0
                             ELSE UNCHANGED <<app, elapsed>>
       /\ valid' = IF Cardinality(keys) = 1 THEN Min(keys) ELSE valid
  ELSE /\ keyPressed' = FALSE
       /\ UNCHANGED <<app, valid, elapsed>>

\* keyScan_keyPressedCB, keyScan_keyReleasedCB and the rest of the branch of
\* app_key_handler for a new set of keys; keycode[0] is the least of them.
OnKeysChanged(keys) ==
  IF keys # {}
  THEN /\ keyPressed' = TRUE
       /\ IF Min(keys) = SW1 THEN app' = "check" /\ elapsed' = 0
                             ELSE UNCHANGED <<app, elapsed>>
       /\ valid' = IF Cardinality(keys) = 1 THEN Min(keys) ELSE valid
  ELSE /\ app' = "normal" /\ valid' = NoKey /\ keyPressed' = FALSE
       /\ UNCHANGED elapsed

\* The history of what the scans saw.
SeeAge ==
  age' = IF SW1 \in pre /\ SW1 \in down THEN Max({age, 0})
         ELSE IF pre = {} /\ down = {} THEN -1 ELSE age

\* kb_scan_key and what app_key_handler does with its result.  The ring of
\* matrices holds at most the one just pushed, which is read at once.
ScanKey ==
  /\ KbKeyPressed
  /\ IF ~ScanNeeded
     THEN UNCHANGED <<pre, last, appVars, age>>
     ELSE /\ pre' = down /\ last' = Filtered
          /\ IF Filtered # last THEN OnKeysChanged(Filtered)
                                ELSE UNCHANGED appVars
          /\ SeeAge
  /\ UNCHANGED down

\* The first half of app_key_handler: buttonKeepPressed(VK_SW1) is due.
KeepPressed == app = "check" /\ elapsed >= Hold /\ valid = SW1

\* app_key_handler when it is not: for any other key buttonKeepPressed
\* changes nothing of this module.
Loop == ~KeepPressed /\ ScanKey

\* The state of buttonKeepPressed while nv_resetToFactoryNew runs.
StartReset ==
  /\ KeepPressed
  /\ app' = "doing"
  /\ UNCHANGED <<down, scanVars, valid, elapsed, keyPressed, age>>

\* A key that was reported down is reported up: the release counter never
\* runs out before the filter has seen the key up twice.
ReleaseSeen == release_cnt = 0 => last = {}
=============================================================================
