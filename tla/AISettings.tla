----------------------------- MODULE AISettings -----------------------------
(* The assistant's configuration: the live one (ai.Service), the row of      *)
(* ai_settings, what a start makes of the flags and the row (serve.go,       *)
(* resolveAIConfig), and UpdateAIConfig, which reads, replaces, reads back   *)
(* and stores in separate steps while other saves do the same.               *)
EXTENDS Naturals, FiniteSets

CONSTANTS Savers,     \* identifiers of PUT /api/ai/config requests in flight at once
          MaxSaves    \* bound on the requests made

ASSUME SetAssumption == MaxSaves \in Nat

VARIABLES flags,      \* what the command line or the environment gives
          liveCfg,    \* Service.cfg
          setRow,     \* the ai_settings row, NoRow before the first save
          saving,     \* per request: its step and its locals
          sent,       \* keys that some request carried
          overlap,    \* history: two saves were under way at once since none was
          apart,      \* history: why the row may not be what is live
          saves       \* requests made

setVars == <<flags, liveCfg, setRow, saving, sent, overlap, apart, saves>>

Providers == {"anthropic", "openai"}
Keep == "keep"                   \* a request without an apiKey field
Keys == {"", "flag", "typed"}
Config(p, k) == [provider |-> p, key |-> k]
NoRow == Config("", "")
Configs == [provider : Providers \cup {""}, key : Keys]

(* normalize: no provider means anthropic. Model and base URL follow the     *)
(* provider through every step below and are not told apart from it.         *)
Normalized(cfg) == IF cfg.provider = "" THEN [cfg EXCEPT !.provider = "anthropic"] ELSE cfg

(* resolveAIConfig: flags first; the row fills the gaps when it is of the    *)
(* provider that will be in effect.                                          *)
Resolved(f, r) ==
    LET effective == IF f.provider = "" THEN r.provider ELSE f.provider IN
    IF r = NoRow \/ effective # r.provider THEN f
    ELSE Config(effective, IF f.key = "" THEN r.key ELSE f.key)

Started(f, r) == Normalized(Resolved(f, r))

Idle == [at |-> "idle", next |-> NoRow, carried |-> FALSE, store |-> NoRow]

SetInit ==
    /\ flags \in [provider : Providers \cup {""}, key : {"", "flag"}]
    /\ setRow = NoRow
    /\ liveCfg = Started(flags, setRow)
    /\ saving = [s \in Savers |-> Idle]
    /\ sent = {""} /\ overlap = FALSE /\ apart = {} /\ saves = 0

(* The request is merged with the configuration that is live when it reads.  *)
ReadCurrent(s, p, k) ==
    /\ saving[s].at = "idle" /\ saves < MaxSaves
    /\ saves' = saves + 1
    /\ saving' = [saving EXCEPT ![s].at = "configure", ![s].carried = k # Keep,
                            ![s].next = Config(p, IF k = Keep THEN liveCfg.key ELSE k)]
    /\ sent' = IF k = Keep THEN sent ELSE sent \cup {k}
    /\ overlap' = \E t \in Savers \ {s} : saving[t].at # "idle"
    /\ apart' = IF overlap' THEN apart \cup {"overlap"} ELSE apart
    /\ UNCHANGED <<flags, liveCfg, setRow>>

(* Service.Configure, under the service's lock.                              *)
Configure(s) ==
    /\ saving[s].at = "configure"
    /\ liveCfg' = Normalized(saving[s].next)
    /\ saving' = [saving EXCEPT ![s].at = "resolve"]
    /\ UNCHANGED <<flags, setRow, sent, overlap, apart, saves>>

(* Seeded fault: a save that keeps the key stores the live one.              *)
ResolveLiveKey(s) ==
    /\ saving[s].at = "resolve"
    /\ saving' = [saving EXCEPT ![s].at = "store", ![s].store = liveCfg]
    /\ UNCHANGED <<flags, liveCfg, setRow, sent, overlap, apart, saves>>

(* Service.Config again: what will be stored is what is live now.            *)
ResolveLive(s) ==
    /\ saving[s].at = "resolve"
    /\ saving' = [saving EXCEPT ![s].at = IF saving[s].carried THEN "store" ELSE "load",
                            ![s].store = liveCfg]
    /\ UNCHANGED <<flags, liveCfg, setRow, sent, overlap, apart, saves>>

(* Seeded fault: a save that keeps the key stores none.                      *)
LoadStoredKeyBlank(s) ==
    /\ saving[s].at = "load"
    /\ saving' = [saving EXCEPT ![s].at = "store", ![s].store.key = ""]
    /\ UNCHANGED <<flags, liveCfg, setRow, sent, overlap, apart, saves>>

(* A request that keeps the key stores again the key the row already has.    *)
(* An error of LoadAISettings is swallowed: then it stores none.             *)
LoadStoredKey(s) ==
    /\ saving[s].at = "load"
    /\ \/ /\ saving' = [saving EXCEPT ![s].at = "store", ![s].store.key = setRow.key]
          /\ UNCHANGED apart
       \/ /\ saving' = [saving EXCEPT ![s].at = "store", ![s].store.key = ""]
          /\ apart' = apart \cup {"failure"}
    /\ UNCHANGED <<flags, liveCfg, setRow, sent, overlap, saves>>

(* SaveAISettings, which may fail: the live configuration stays replaced.    *)
(* What a request with a key stores, if no other save overlapped it, is all  *)
(* of what is live.                                                          *)
StoreSettings(s) ==
    /\ saving[s].at = "store"
    /\ saving' = [saving EXCEPT ![s] = Idle]
    /\ \/ /\ setRow' = saving[s].store
          /\ apart' = IF saving[s].carried /\ ~overlap THEN {} ELSE apart
       \/ /\ UNCHANGED setRow
          /\ apart' = apart \cup {"failure"}
    /\ UNCHANGED <<flags, liveCfg, sent, overlap, saves>>

(* The process ends at any step and is started with the same flags.  When    *)
(* the row cannot be read, it starts with the flags alone.                   *)
RestartProcess ==
    /\ \/ liveCfg' = Started(flags, setRow) /\ apart' = {}
       \/ liveCfg' = Started(flags, NoRow) /\ apart' = {"failure"}
    /\ saving' = [s \in Savers |-> Idle]
    /\ overlap' = FALSE
    /\ UNCHANGED <<flags, setRow, sent, saves>>

SetNext ==
    \/ \E s \in Savers :
         \/ \E p \in Providers, k \in {Keep, "", "typed"} : ReadCurrent(s, p, k)
         \/ Configure(s) \/ ResolveLive(s) \/ LoadStoredKey(s) \/ StoreSettings(s)
    \/ RestartProcess

SetSpec == SetInit /\ [][SetNext]_setVars

-----------------------------------------------------------------------------
SetTypeOK ==
    /\ flags \in Configs /\ liveCfg \in Configs /\ setRow \in Configs
    /\ \A s \in Savers : saving[s].next \in Configs /\ saving[s].store \in Configs
    /\ sent \subseteq Keys /\ overlap \in BOOLEAN /\ apart \subseteq {"failure", "overlap"}
    /\ saves \in 0..MaxSaves

(* A key reaches the disk only if a request carried it: one from a flag or   *)
(* the environment stays off it (handlers/ai.go, UpdateAIConfig).            *)
KeyStaysOffDisk == setRow.key \in sent

(* A save that no other overlapped puts no key on the disk that a request    *)
(* did not carry, unless it is there already.                                *)
LoneSaveAddsNoKey == [][setRow'.key \in sent \cup {setRow.key} \/ overlap]_setVars

(* With no flags, a restart brings back the configuration that was live,     *)
(* however many requests save, unless a save is half way or the row and the  *)
(* live configuration may have come apart: a read or a write failed, or two  *)
(* saves overlapped, and since then no save with a key went through alone.   *)
(* In each of these cases the code does bring back something else.           *)
SettingsSurviveRestart ==
    apart = {} /\ flags = NoRow /\ setRow # NoRow /\ (\A s \in Savers : saving[s].at = "idle")
        => Started(flags, setRow) = liveCfg
=============================================================================
