---------------------------- MODULE ClientProofs ----------------------------
(***************************************************************************)
(* Proofs about the two parts of the browser.  ModelChoice, for every      *)
(* endpoints file, every set of sessions, models and custom endpoints and  *)
(* every stored configuration: what the page shows is what runs, also      *)
(* after the session is opened again.  SessionClient, for every set of     *)
(* sessions and titles and every number of renames, deletions and          *)
(* refreshes under way: a confirmed rename stays, a title is asked for     *)
(* once, and only a rename that was under way brings a removed session     *)
(* back.                                                                   *)
(***************************************************************************)
EXTENDS ModelChoice, SessionClient, SequenceTheorems, TLAPS


-----------------------------------------------------------------------------
(* ModelChoice: the inductive invariant *)

IsModels(x) ==
    /\ x = [main |-> x.main, auxiliary |-> x.auxiliary, follows |-> x.follows,
            touched |-> x.touched]
    /\ x.follows \in BOOLEAN /\ x.touched \in BOOLEAN

\* Options with the models of some choice, be it another one than theirs.
Loose(o) ==
    /\ o = [choice |-> o.choice, default |-> o.default, models |-> o.models, kept |-> o.kept,
            custom |-> o.custom]
    /\ IsModels(o.models) /\ IsModels(o.kept)
    /\ o.choice \in Presets \cup {Custom, Null}
    /\ o.default \in {Null, DefaultProfile}
    /\ o.custom.full \in BOOLEAN /\ o.custom.protocol \in Protocols \ {Null}
    /\ ~o.kept.touched => o.kept.main = Null

\* A main model the visitor has not touched is the one the choice runs anyway.
Suits(o) ==
    ~o.models.touched =>
        \/ o.models.main = Null
        \/ o.choice # Custom /\ o.models.main = Definitions[Or(o.choice, DefaultProfile)].main

Fits(o) == Loose(o) /\ Suits(o)

SettingsFit ==
    /\ settings = [open |-> settings.open, seen |-> settings.seen]
    /\ settings.open \in BOOLEAN
    /\ settings.open => settings.seen = Seen(options)

PageFits ==
    /\ page = [session |-> page.session, loaded |-> page.loaded, exists |-> page.exists,
               configured |-> page.configured, asking |-> page.asking]
    /\ page.session \in Session

StorageFits ==
    /\ storage = [latest |-> storage.latest, sessions |-> storage.sessions]
    /\ storage.sessions = [s \in Session |-> storage.sessions[s]]
    /\ storage.latest # Null => Fits(Parsed(storage.latest))
    /\ \A s \in Session : storage.sessions[s] # Null => Fits(Parsed(storage.sessions[s]))

\* What storage has of a session runs where its last message ran.
RanFits ==
    /\ ran = [s \in Session |-> ran[s]]
    /\ \A s \in Session : ran[s] # Null =>
          LET o == Parsed(storage.sessions[s])
          IN /\ storage.sessions[s] # Null
             /\ ~Incomplete(o)
             /\ Target(Override(o)) = ran[s]

\* The revision holds for one download at most: for the fields of now.
CatalogInv ==
    /\ CatalogFits
    /\ \A d \in downloads : /\ d = [of |-> d.of, current |-> d.current]
                            /\ d.current = TRUE => d.of = options.custom

ChoiceInv == Fits(options) /\ SettingsFit /\ PageFits /\ StorageFits /\ CatalogInv

-----------------------------------------------------------------------------
(* The setters *)

LEMMA Apart ==
    /\ Null \notin Presets /\ Custom \notin Presets /\ Custom # Null
    /\ Available \subseteq Presets
    /\ DefaultProfile \in Presets
    BY NamesApart, DefaultIsConfigured DEF Available, Presets

\* The store with other models, set aside or not.
LEMMA Records ==
    ASSUME NEW o,
           o = [choice |-> o.choice, default |-> o.default, models |-> o.models,
                kept |-> o.kept, custom |-> o.custom],
           NEW c, NEW m, NEW k
    PROVE  /\ [o EXCEPT !.choice = c, !.models = m, !.kept = k]
              = [choice |-> c, default |-> o.default, models |-> m, kept |-> k,
                 custom |-> o.custom]
           /\ [o EXCEPT !.choice = c, !.kept = k, !.models = m]
              = [choice |-> c, default |-> o.default, models |-> m, kept |-> k,
                 custom |-> o.custom]
           /\ [o EXCEPT !.models = m, !.kept = k]
              = [choice |-> o.choice, default |-> o.default, models |-> m, kept |-> k,
                 custom |-> o.custom]
<1>1. PICK d, c0, m0, k0, u : o = [choice |-> c0, default |-> d, models |-> m0, kept |-> k0,
                                   custom |-> u]
    OBVIOUS
<1>2. o.choice = c0 /\ o.default = d /\ o.custom = u
    BY <1>1
<1>3. PICK p : p = [o EXCEPT !.choice = c]
    OBVIOUS
<1>4. p = [choice |-> c, default |-> d, models |-> m0, kept |-> k0, custom |-> u]
    BY <1>1, <1>3
<1>5. PICK q : q = [p EXCEPT !.models = m]
    OBVIOUS
<1>6. q = [choice |-> c, default |-> d, models |-> m, kept |-> k0, custom |-> u]
    BY <1>4, <1>5
<1>7. [q EXCEPT !.kept = k]
      = [choice |-> c, default |-> d, models |-> m, kept |-> k, custom |-> u]
    BY <1>6
<1>8. PICK r : r = [p EXCEPT !.kept = k]
    OBVIOUS
<1>9. r = [choice |-> c, default |-> d, models |-> m0, kept |-> k, custom |-> u]
    BY <1>4, <1>8
<1>10. [r EXCEPT !.models = m]
       = [choice |-> c, default |-> d, models |-> m, kept |-> k, custom |-> u]
    BY <1>9
<1>11. PICK s : s = [o EXCEPT !.models = m]
    OBVIOUS
<1>12. s = [choice |-> c0, default |-> d, models |-> m, kept |-> k0, custom |-> u]
    BY <1>1, <1>11
<1>13. [s EXCEPT !.kept = k]
       = [choice |-> c0, default |-> d, models |-> m, kept |-> k, custom |-> u]
    BY <1>12
<1>14. /\ [o EXCEPT !.choice = c, !.models = m, !.kept = k] = [q EXCEPT !.kept = k]
       /\ [o EXCEPT !.choice = c, !.kept = k, !.models = m] = [r EXCEPT !.models = m]
       /\ [o EXCEPT !.models = m, !.kept = k] = [s EXCEPT !.kept = k]
    BY <1>3, <1>5, <1>8, <1>11, Zenon
<1> QED  BY <1>2, <1>7, <1>10, <1>13, <1>14

LEMMA InitialIs == Initial \in Available \cup {Custom}
    BY DEF Initial

LEMMA ChoiceLoose ==
    ASSUME NEW o, Loose(o), o.choice = Custom => Suits(o),
           NEW c \in Presets \cup {Custom, Null}
    PROVE  LET w == WithChoice(o, c)
           IN /\ Loose(w)
              /\ w.choice = c /\ w.custom = o.custom /\ w.default = o.default
              /\ c = Custom \/ c = o.default \/ (c = o.choice /\ Suits(o)) => Suits(w)
<1> DEFINE w == WithChoice(o, c)
<1>1. PICK m, k : m = w.models /\ k = w.kept
    OBVIOUS
<1>2. o = [choice |-> o.choice, default |-> o.default, models |-> o.models, kept |-> o.kept,
           custom |-> o.custom]
    BY DEF Loose
<1>3. /\ m = IF c = Custom /\ o.choice # Custom THEN o.kept
             ELSE IF c = o.default THEN Untouched ELSE o.models
      /\ k = IF c = Custom THEN o.kept ELSE Aside(o)
      /\ w = [choice |-> c, default |-> o.default, models |-> m, kept |-> k, custom |-> o.custom]
    <2>1. PICK m0, k0 :
            /\ m0 = IF c = Custom /\ o.choice # Custom THEN o.kept
                    ELSE IF c = o.default THEN Untouched ELSE o.models
            /\ k0 = IF c = Custom THEN o.kept ELSE Aside(o)
        OBVIOUS
    <2>2. w = [o EXCEPT !.choice = c, !.models = m0, !.kept = k0]
        BY <2>1, Zenon DEF WithChoice
    <2>3. w = [choice |-> c, default |-> o.default, models |-> m0, kept |-> k0,
               custom |-> o.custom]
        BY <1>2, <2>2, Records
    <2>4. m = m0 /\ k = k0
        BY <1>1, <2>3
    <2> QED  BY <2>1, <2>3, <2>4
<1>4. IsModels(Untouched) /\ ~Untouched.touched /\ Untouched.main = Null
    BY DEF Untouched, IsModels
<1>5. o.default # Custom
    BY Apart DEF Loose
<1>6. IsModels(m) /\ IsModels(k)
    BY <1>3, <1>4 DEF Loose, Aside
<1>7. ~k.touched => k.main = Null
    BY <1>3 DEF Loose, Aside, Suits
<1>8. Loose(w)
    BY <1>3, <1>6, <1>7 DEF Loose
<1>9. c = Custom => Suits(w)
    BY <1>3, <1>5 DEF Loose, Suits
<1>10. c = o.default => Suits(w)
    BY <1>3, <1>4, <1>5 DEF Suits
<1>11. c = o.choice /\ Suits(o) => Suits(w)
    BY <1>3, <1>4, <1>9 DEF Suits
<1> QED  BY <1>3, <1>8, <1>9, <1>10, <1>11

LEMMA DefaultFits ==
    ASSUME NEW o, Fits(o), NEW d \in {Null, DefaultProfile}
    PROVE  LET w == [o EXCEPT !.default = d]
           IN /\ Fits(w)
              /\ w = [choice |-> o.choice, default |-> d, models |-> o.models, kept |-> o.kept,
                      custom |-> o.custom]
    BY DEF Fits, Loose, Suits

LEMMA SystemFits ==
    ASSUME NEW o, Fits(o)
    PROVE  LET w == SystemDefault(o)
           IN Fits(w) /\ w.custom = o.custom /\ w.choice = o.default
<1> DEFINE w == SystemDefault(o)
<1>1. w = [choice |-> o.default, default |-> o.default, models |-> Untouched, kept |-> Aside(o),
           custom |-> o.custom]
    <2>1. PICK c, k : c = o.default /\ k = Aside(o)
        OBVIOUS
    <2>2. w = [o EXCEPT !.choice = c, !.kept = k, !.models = Untouched]
        BY <2>1, Zenon DEF SystemDefault
    <2> QED  BY <2>1, <2>2, Records DEF Fits, Loose
<1>2. IsModels(Untouched) /\ ~Untouched.touched /\ Untouched.main = Null
    BY DEF Untouched, IsModels
<1>3. IsModels(Aside(o)) /\ (~Aside(o).touched => Aside(o).main = Null)
    BY DEF Aside, Fits, Loose, Suits
<1>4. o.default \in {Null, DefaultProfile} /\ o.default \in Presets \cup {Custom, Null}
    BY Apart DEF Fits, Loose
<1> QED  BY <1>1, <1>2, <1>3, <1>4 DEF Fits, Loose, Suits

LEMMA ModelsLoose ==
    ASSUME NEW o, Fits(o), NEW m, IsModels(m),
           o.choice = Custom /\ ~m.touched => m.main = Null
    PROVE  LET w == WithModels(o, m)
           IN /\ Loose(w)
              /\ w.models = m /\ w.choice = o.choice /\ w.custom = o.custom
<1> DEFINE w == WithModels(o, m)
<1>1. w = [choice |-> o.choice, default |-> o.default, models |-> m,
           kept |-> IF o.choice = Custom THEN m ELSE o.kept, custom |-> o.custom]
    <2>1. PICK k : k = IF o.choice = Custom THEN m ELSE o.kept
        OBVIOUS
    <2>2. w = [o EXCEPT !.models = m, !.kept = k]
        BY <2>1, Zenon DEF WithModels
    <2> QED  BY <2>1, <2>2, Records DEF Fits, Loose
<1> QED  BY <1>1 DEF Fits, Loose

LEMMA MainFits ==
    ASSUME NEW o, Fits(o), NEW m
    PROVE  LET w == WithMain(o, m)
           IN Fits(w) /\ w.choice = o.choice /\ w.custom = o.custom
<1>1. PICK x : x = [o.models EXCEPT !.main = m, !.touched = TRUE,
                                    !.auxiliary = IF o.models.follows THEN m ELSE @]
    OBVIOUS
<1>2. IsModels(x) /\ x.touched
    BY <1>1 DEF Fits, Loose, IsModels
<1>3. WithMain(o, m) = WithModels(o, x)
    BY <1>1 DEF WithMain
<1>4. Suits(WithModels(o, x))
    BY <1>2, ModelsLoose DEF Suits
<1> QED  BY <1>2, <1>3, <1>4, ModelsLoose DEF Fits

LEMMA AuxiliaryFits ==
    ASSUME NEW o, Fits(o), NEW m
    PROVE  LET w == WithAuxiliary(o, m)
           IN Fits(w) /\ w.choice = o.choice /\ w.custom = o.custom
<1>1. PICK x : x = [o.models EXCEPT !.auxiliary = m, !.follows = FALSE]
    OBVIOUS
<1>2. IsModels(x) /\ x.touched = o.models.touched /\ x.main = o.models.main
    BY <1>1 DEF Fits, Loose, IsModels
<1>3. WithAuxiliary(o, m) = WithModels(o, x)
    BY <1>1 DEF WithAuxiliary
<1>4. o.choice = Custom /\ ~x.touched => x.main = Null
    BY <1>2 DEF Fits, Suits
<1>5. Suits(WithModels(o, x))
    BY <1>2, <1>4, ModelsLoose DEF Fits, Suits
<1> QED  BY <1>2, <1>3, <1>4, <1>5, ModelsLoose DEF Fits

LEMMA PrefillFits ==
    ASSUME NEW o, Loose(o), o.choice \in Presets
    PROVE  LET w == Prefill(o, o.choice)
           IN Fits(w) /\ w.choice = o.choice /\ w.custom = o.custom
<1>1. CASE o.models.touched
    BY <1>1, Apart DEF Prefill, Fits, Suits
<1>2. CASE ~o.models.touched
    <2>1. PICK x, main : /\ main = Definitions[o.choice].main
                         /\ x = [o.models EXCEPT !.main = main,
                                    !.auxiliary = IF o.models.follows
                                      THEN Or(Definitions[o.choice].auxiliary, main) ELSE @]
        OBVIOUS
    <2>2. IsModels(x) /\ x.touched = o.models.touched /\ x.main = main
        BY <2>1 DEF Loose, IsModels
    <2>3. Prefill(o, o.choice) = [choice |-> o.choice, default |-> o.default, models |-> x,
                                  kept |-> o.kept, custom |-> o.custom]
        <3>1. Prefill(o, o.choice) = [o EXCEPT !.models = x]
            <4>1. PICK y : y = IF o.models.follows
                               THEN Or(Definitions[o.choice].auxiliary, main)
                               ELSE o.models.auxiliary
                OBVIOUS
            <4>2. x = [o.models EXCEPT !.main = main, !.auxiliary = y]
                BY <2>1, <4>1, Zenon
            <4>3. Prefill(o, o.choice) = [o EXCEPT !.models.main = main, !.models.auxiliary = y]
                BY <1>2, <2>1, <4>1, Apart DEF Prefill
            <4> QED  BY <4>2, <4>3 DEF Loose
        <3>2. Prefill(o, o.choice) = [o EXCEPT !.models = x, !.kept = o.kept]
            BY <3>1 DEF Loose
        <3> QED  BY <3>2, Records DEF Loose
    <2>4. Or(o.choice, DefaultProfile) = o.choice /\ o.choice # Custom
        BY Apart DEF Or
    <2>5. PICK w : w = Prefill(o, o.choice)
        OBVIOUS
    <2>6. /\ w.choice = o.choice /\ w.default = o.default /\ w.models = x
          /\ w.kept = o.kept /\ w.custom = o.custom
          /\ w = [choice |-> w.choice, default |-> w.default, models |-> w.models,
                   kept |-> w.kept, custom |-> w.custom]
        BY <2>3, <2>5
    <2>7. Loose(w)
        BY <2>2, <2>6 DEF Loose
    <2>8. Suits(w)
        BY <2>1, <2>2, <2>4, <2>6 DEF Suits
    <2> QED  BY <2>5, <2>6, <2>7, <2>8 DEF Fits
<1> QED  BY <1>1, <1>2

-----------------------------------------------------------------------------
(* The effects of the dialog *)

LEMMA SettledFits ==
    ASSUME NEW o, NEW seen, Loose(o),
           o.choice \notin Available \/ o.choice = seen => Suits(o)
    PROVE  LET w == Settled(o, seen)
           IN Fits(w) /\ w.custom = o.custom
<1> DEFINE kd == WithDefault(o, DefaultProfile)
           adopted == Adopted(o)
<1>1. CASE o.choice = Null
    <2>1. Suits(o)
        BY <1>1, Apart
    <2>2. Fits(kd) /\ kd.choice = Null /\ kd.custom = o.custom
        <3>1. CASE DefaultProfile = o.default
            BY <1>1, <2>1, <3>1 DEF WithDefault, Fits
        <3>2. CASE DefaultProfile # o.default
            <4>1. kd = [choice |-> Null, default |-> DefaultProfile, models |-> Untouched,
                        kept |-> o.kept, custom |-> o.custom]
                BY <1>1, <3>2 DEF WithDefault, Loose
            <4>2. IsModels(Untouched) /\ ~Untouched.touched /\ Untouched.main = Null
                BY DEF Untouched, IsModels
            <4> QED  BY <4>1, <4>2 DEF Fits, Loose, Suits
        <3> QED  BY <3>1, <3>2
    <2>3. adopted = WithChoice(kd, Initial)
        BY <2>2 DEF Adopted
    <2>4. Initial \in Presets \cup {Custom, Null}
        BY InitialIs, Apart
    <2>5. /\ Loose(adopted)
          /\ adopted.choice = Initial /\ adopted.custom = o.custom
          /\ Initial = Custom => Suits(adopted)
        <3>1. Loose(kd) /\ (kd.choice = Custom => Suits(kd))
            BY <2>2 DEF Fits
        <3> HIDE DEF kd, adopted
        <3> QED  BY <2>2, <2>3, <2>4, <3>1, ChoiceLoose
    <2>6. CASE Initial \in Available
        <3>1. adopted.choice \in Available /\ adopted.choice # Null /\ adopted.choice \in Presets
            BY <2>5, <2>6, Apart
        <3>2. Settled(o, seen) = Prefill(adopted, adopted.choice)
            BY <1>1, <3>1 DEF Settled
        <3> HIDE DEF adopted
        <3> QED  BY <2>5, <3>1, <3>2, PrefillFits
    <2>7. CASE Initial = Custom
        <3>1. adopted.choice \notin Available
            BY <2>5, <2>7, Apart
        <3>2. Settled(o, seen) = adopted
            BY <3>1 DEF Settled
        <3> HIDE DEF adopted
        <3> QED  BY <2>5, <2>7, <3>2 DEF Fits
    <2> QED  BY <2>6, <2>7, InitialIs
<1>2. CASE o.choice # Null
    <2>1. kd = [choice |-> o.choice, default |-> DefaultProfile, models |-> o.models,
                kept |-> o.kept, custom |-> o.custom]
        BY <1>2 DEF WithDefault, Loose
    <2>2. adopted = kd
        BY <1>2, <2>1 DEF Adopted
    <2>3. Loose(adopted) /\ adopted.choice = o.choice /\ adopted.custom = o.custom
          /\ (Suits(o) => Suits(adopted))
        BY <2>1, <2>2 DEF Loose, Suits
    <2>4. CASE o.choice \in Available /\ o.choice # seen
        <3>1. adopted.choice \in Available /\ adopted.choice \in Presets
            BY <2>3, <2>4, Apart
        <3>2. Settled(o, seen) = Prefill(adopted, adopted.choice)
            BY <1>2, <2>3, <2>4 DEF Settled
        <3> HIDE DEF adopted
        <3> QED  BY <2>3, <3>1, <3>2, PrefillFits
    <2>5. CASE ~(o.choice \in Available /\ o.choice # seen)
        <3>1. Settled(o, seen) = adopted
            BY <1>2, <2>3, <2>5 DEF Settled
        <3> HIDE DEF adopted
        <3> QED  BY <2>3, <2>5, <3>1 DEF Fits
    <2> QED  BY <2>4, <2>5
<1> QED  BY <1>1, <1>2

LEMMA BecomesFits ==
    ASSUME NEW o, Loose(o), SettingsFit, Becomes(o),
           ~settings.open => Suits(o),
           settings.open /\ (o.choice \notin Available \/ o.choice = Seen(options)) => Suits(o)
    PROVE  Fits(options') /\ SettingsFit' /\ options'.custom = o.custom
<1>1. CASE settings.open
    <2>1. /\ options' = Settled(o, settings.seen)
          /\ settings' = [settings EXCEPT !.seen = Seen(options')]
        BY <1>1 DEF Becomes
    <2>2. settings.seen = Seen(options)
        BY <1>1 DEF SettingsFit
    <2>3. Fits(options') /\ options'.custom = o.custom
        BY <1>1, <2>1, <2>2, SettledFits
    <2>4. settings' = [open |-> settings.open, seen |-> Seen(options')]
        BY <2>1 DEF SettingsFit
    <2>5. Seen(options)' = Seen(options')
        BY DEF Seen, Available, Presets
    <2>6. SettingsFit'
        BY <2>4, <2>5 DEF SettingsFit
    <2> QED  BY <2>3, <2>6
<1>2. CASE ~settings.open
    <2>1. options' = o /\ settings' = settings
        BY <1>2 DEF Becomes
    <2>2. SettingsFit'
        BY <1>2, <2>1 DEF SettingsFit
    <2> QED  BY <1>2, <2>1, <2>2 DEF Fits
<1> QED  BY <1>1, <1>2

\* A change of the fields that leaves the choice alone.
LEMMA SteadyFits ==
    ASSUME NEW o, Fits(o), SettingsFit, Becomes(o)
    PROVE  Fits(options') /\ SettingsFit' /\ options'.custom = o.custom
    BY BecomesFits DEF Fits

LEMMA ChoosingFits ==
    ASSUME Fits(options), SettingsFit, settings.open,
           NEW c \in Available \cup {Custom}, Becomes(WithChoice(options, c))
    PROVE  Fits(options') /\ SettingsFit' /\ options'.custom = options.custom
<1>1. PICK w : w = WithChoice(options, c)
    OBVIOUS
<1>2. c \in Presets \cup {Custom, Null} /\ Custom \notin Available /\ Null \notin Available
    BY Apart
<1>3. /\ Loose(w) /\ w.choice = c /\ w.custom = options.custom
      /\ c = Custom \/ (c = options.choice /\ Suits(options)) => Suits(w)
    BY <1>1, <1>2, ChoiceLoose DEF Fits
<1>4. w.choice \notin Available \/ w.choice = Seen(options) => Suits(w)
    BY <1>2, <1>3 DEF Seen, Fits
<1> QED  BY <1>1, <1>3, <1>4, BecomesFits

-----------------------------------------------------------------------------
(* What storage gives back *)

LEMMA ParsedIs ==
    /\ Parsed(Null) = Null
    /\ \A o : o # Null /\ Loose(o) => Parsed(o) = o
<1>1. ASSUME NEW o, o # Null, Loose(o)
      PROVE  Parsed(o) = o
    <2>1. o.custom.full # Null
        BY <1>1, NamesApart DEF Loose
    <2>2. Migrated(o.custom) = o.custom
        BY <2>1 DEF Migrated
    <2> QED  BY <1>1, <2>2 DEF Parsed, Loose
<1> QED  BY <1>1 DEF Parsed

LEMMA ConfigFits ==
    ASSUME NEW o, Fits(o), NEW override
    PROVE  LET w == Config(o, override)
           IN /\ Fits(w) /\ w.default = Null /\ w.custom = o.custom
              /\ override # NoOverride => w = [o EXCEPT !.default = Null]
              /\ override = NoOverride => w.choice = Null /\ w.models = Untouched
<1>1. PICK b : b = Built(o)
    OBVIOUS
<1>2. Fits(b) /\ b = [choice |-> o.choice, default |-> Null, models |-> o.models,
                      kept |-> o.kept, custom |-> o.custom]
    BY <1>1, DefaultFits DEF Built
<1>3. CASE override # NoOverride
    BY <1>1, <1>2, <1>3 DEF Config, Built
<1>4. CASE override = NoOverride
    <2>1. PICK w, u : w = Config(o, override) /\ u = Untouched
        OBVIOUS
    <2>2. w = [b EXCEPT !.choice = Null, !.models = u]
        BY <1>1, <1>4, <2>1, Zenon DEF Config
    <2>3. PICK p : p = [b EXCEPT !.choice = Null]
        OBVIOUS
    <2>4. p = [choice |-> Null, default |-> Null, models |-> o.models,
               kept |-> o.kept, custom |-> o.custom]
        BY <1>2, <2>3
    <2>5. w = [p EXCEPT !.models = u]
        BY <2>2, <2>3, Zenon
    <2>6. w = [choice |-> Null, default |-> Null, models |-> u,
               kept |-> o.kept, custom |-> o.custom]
        BY <2>4, <2>5
    <2>7. IsModels(u) /\ ~u.touched /\ u.main = Null
        BY <2>1 DEF Untouched, IsModels
    <2>8. Fits(w)
        BY <1>2, <2>6, <2>7 DEF Fits, Loose, Suits
    <2> QED  BY <1>4, <2>1, <2>6, <2>8
<1> QED  BY <1>3, <1>4

LEMMA FreshFits == Fits(Fresh)
<1>1. IsModels(Untouched) /\ ~Untouched.touched /\ Untouched.main = Null
    BY DEF Untouched, IsModels
<1>2. Blank.full \in BOOLEAN /\ Blank.protocol \in Protocols \ {Null}
    BY BlankIsOne, FieldsTyped
<1>3. PICK u : u = Untouched
    OBVIOUS
<1>4. Fresh = [choice |-> Null, default |-> Null, models |-> u, kept |-> u, custom |-> Blank]
    BY <1>3, Zenon DEF Fresh
<1> QED  BY <1>1, <1>2, <1>3, <1>4 DEF Fits, Loose, Suits

\* What a session is given when its detail arrives.
LEMMA AppliedFits ==
    ASSUME Fits(options), StorageFits, page.session \in Session, NEW exists
    PROVE  Fits(Applied(Restored(page.session, exists)))
<1>1. PICK config, x : /\ config = Restored(page.session, exists)
                       /\ x = Or(config, Fresh)
    OBVIOUS
<1>2. config # Null => Fits(config)
    BY <1>1, ParsedIs DEF Restored, Or, StorageFits
<1>3. Fits(x)
    BY <1>1, <1>2, FreshFits DEF Or
<1>4. options.default \in {Null, DefaultProfile}
    BY DEF Fits, Loose
<1>5. PICK d : d = options.default
    OBVIOUS
<1>6. Applied(config) = [x EXCEPT !.default = d]
    BY <1>1, <1>5 DEF Applied
<1>7. Fits([x EXCEPT !.default = d])
    BY <1>3, <1>4, <1>5, DefaultFits
<1> QED  BY <1>1, <1>6, <1>7

LEMMA StoringFits ==
    ASSUME StorageFits, PageFits, NEW o, Fits(o), NEW override,
           storage' = Persisted(Config(o, override)) \/ UNCHANGED storage
    PROVE  StorageFits'
<1>1. CASE UNCHANGED storage
    <2>1. \A x : Parsed(x)' = Parsed(x)
        OBVIOUS
    <2> QED  BY <1>1, <2>1 DEF StorageFits, Fits, Loose, Suits
<1>2. CASE storage' = Persisted(Config(o, override))
    <2>1. PICK w : w = Config(o, override)
        OBVIOUS
    <2>2. Fits(w)
        BY <2>1, ConfigFits
    <2>3. w # Null => Fits(Parsed(w))
        BY <2>2, ParsedIs DEF Fits
    <2>4. /\ storage'.latest = w
          /\ storage'.sessions = [storage.sessions EXCEPT ![page.session] = w]
          /\ storage' = [latest |-> storage'.latest, sessions |-> storage'.sessions]
        BY <1>2, <2>1 DEF Persisted
    <2>5. /\ storage'.sessions = [s \in Session |-> storage'.sessions[s]]
          /\ \A s \in Session : storage'.sessions[s] =
                IF s = page.session THEN w ELSE storage.sessions[s]
        BY <2>4 DEF StorageFits, PageFits
    <2> QED  BY <2>3, <2>4, <2>5 DEF StorageFits
<1> QED  BY <1>1, <1>2

-----------------------------------------------------------------------------
(* Every action *)

\* The part of the invariant that says which options there may be.
OptionsInv == Fits(options) /\ SettingsFit /\ PageFits /\ StorageFits

\* A download that has gone stale.
LEMMA Gone ==
    ASSUME NEW e, e = [of |-> e.of, current |-> e.current]
    PROVE  [e EXCEPT !.current = FALSE] = [of |-> e.of, current |-> FALSE]
<1>1. PICK a, b, f : e = [of |-> a, current |-> b] /\ f = FALSE
    OBVIOUS
<1>2. [[of |-> a, current |-> b] EXCEPT !.current = f] = [of |-> a, current |-> f]
    OBVIOUS
<1>3. e.of = a
    BY <1>1
<1> QED  BY <1>1, <1>2, <1>3, Zenon

LEMMA KeepsPage ==
    ASSUME PageFits, UNCHANGED page
    PROVE  PageFits'
    BY DEF PageFits

LEMMA KeepsStorage ==
    ASSUME StorageFits, UNCHANGED storage
    PROVE  StorageFits'
<1>1. \A x : Parsed(x)' = Parsed(x)
    OBVIOUS
<1> QED  BY <1>1 DEF StorageFits, Fits, Loose, Suits

LEMMA KeepsOptions ==
    ASSUME Fits(options), SettingsFit, UNCHANGED <<options, settings>>
    PROVE  Fits(options') /\ SettingsFit'
    BY DEF SettingsFit, Seen, Available, Presets

LEMMA KeepsCatalog ==
    ASSUME CatalogInv, options'.custom = options.custom, UNCHANGED <<catalog, downloads>>
    PROVE  CatalogInv'
    BY DEF CatalogInv, CatalogFits

LEMMA ClearsCatalog ==
    ASSUME CatalogInv, catalog' = NoCatalog, downloads' = Stale, NamesApart
    PROVE  CatalogInv'
<1>1. catalog'.of = Null
    BY DEF NoCatalog
<1>2. ASSUME NEW d \in downloads'
      PROVE  d = [of |-> d.of, current |-> FALSE]
    <2>1. PICK e \in downloads : d = [e EXCEPT !.current = FALSE]
        BY <1>2 DEF Stale
    <2>2. e = [of |-> e.of, current |-> e.current]
        BY DEF CatalogInv
    <2>3. d = [of |-> e.of, current |-> FALSE]
        BY <2>1, <2>2, Gone
    <2> QED  BY <2>3
<1>3. \A d \in downloads' : d = [of |-> d.of, current |-> d.current] /\ d.current = FALSE
    BY <1>2
<1> QED  BY <1>1, <1>3 DEF CatalogInv, CatalogFits

LEMMA OpensSettings ==
    ASSUME ChoiceInv, OpenSettings
    PROVE  OptionsInv' /\ CatalogInv'
<1>1. ~settings.open /\ options' = Settled(options, Null)
      /\ settings' = [open |-> TRUE, seen |-> Seen(options')]
      /\ UNCHANGED <<catalog, downloads, page, storage>>
    BY DEF OpenSettings
<1>2. Fits(options') /\ options'.custom = options.custom
    BY <1>1, SettledFits DEF ChoiceInv, Fits
<1>3. Seen(options)' = Seen(options')
    BY DEF Seen, Available, Presets
<1>4. SettingsFit'
    BY <1>1, <1>3 DEF SettingsFit
<1> QED  BY <1>1, <1>2, <1>4, KeepsPage, KeepsStorage, KeepsCatalog DEF ChoiceInv, OptionsInv

LEMMA ClosesSettings ==
    ASSUME ChoiceInv, CloseSettings
    PROVE  OptionsInv' /\ CatalogInv'
<1>1. options' = options /\ settings' = [open |-> FALSE, seen |-> Null]
      /\ UNCHANGED <<catalog, downloads, page, storage>>
    BY DEF CloseSettings
<1>2. SettingsFit'
    BY <1>1 DEF SettingsFit
<1> QED  BY <1>1, <1>2, KeepsPage, KeepsStorage, KeepsCatalog DEF ChoiceInv, OptionsInv

LEMMA EditFits ==
    ASSUME ChoiceInv, Edit
    PROVE  OptionsInv' /\ CatalogInv'
<1>1. settings.open /\ UNCHANGED <<catalog, downloads, page, storage>>
    BY DEF Edit
<1>2. Fits(options') /\ SettingsFit' /\ options'.custom = options.custom
    <2>1. CASE \E choice \in Available \cup {Custom} : Becomes(WithChoice(options, choice))
        BY <1>1, <2>1, ChoosingFits DEF ChoiceInv
    <2>2. CASE \E m : Becomes(WithMain(options, m)) \/ Becomes(WithAuxiliary(options, m))
        <3>1. PICK m : Becomes(WithMain(options, m)) \/ Becomes(WithAuxiliary(options, m))
            BY <2>2
        <3>2. CASE Becomes(WithMain(options, m))
            BY <3>2, SteadyFits, MainFits DEF ChoiceInv
        <3>3. CASE Becomes(WithAuxiliary(options, m))
            BY <3>3, SteadyFits, AuxiliaryFits DEF ChoiceInv
        <3> QED  BY <3>1, <3>2, <3>3
    <2> QED  BY <2>1, <2>2 DEF Edit
<1> QED  BY <1>1, <1>2, KeepsPage, KeepsStorage, KeepsCatalog DEF ChoiceInv, OptionsInv

LEMMA QuickPickFits ==
    ASSUME ChoiceInv, QuickPick
    PROVE  OptionsInv' /\ CatalogInv'
<1>1. PICK m : Becomes(WithMain(options, m))
    BY DEF QuickPick
<1>2. UNCHANGED <<catalog, downloads, page, storage>>
    BY DEF QuickPick
<1>3. Fits(options') /\ SettingsFit' /\ options'.custom = options.custom
    BY <1>1, SteadyFits, MainFits DEF ChoiceInv
<1> QED  BY <1>2, <1>3, KeepsPage, KeepsStorage, KeepsCatalog DEF ChoiceInv, OptionsInv

LEMMA SetFieldsFits ==
    ASSUME ChoiceInv, SetFields
    PROVE  OptionsInv' /\ CatalogInv'
<1>1. PICK c \in Connections : Becomes([options EXCEPT !.custom = c])
    BY DEF SetFields
<1>2. /\ catalog' = NoCatalog /\ downloads' = Stale
      /\ UNCHANGED <<page, storage>>
    BY DEF SetFields
<1>3. PICK w : w = [options EXCEPT !.custom = c]
    OBVIOUS
<1>4. c.full \in BOOLEAN /\ c.protocol \in Protocols \ {Null}
    BY FieldsTyped
<1>5. w = [choice |-> options.choice, default |-> options.default, models |-> options.models,
           kept |-> options.kept, custom |-> c]
    BY <1>3 DEF ChoiceInv, Fits, Loose
<1>6. Fits(w)
    BY <1>4, <1>5 DEF ChoiceInv, Fits, Loose, Suits
<1>7. Fits(options') /\ SettingsFit'
    BY <1>1, <1>3, <1>6, SteadyFits DEF ChoiceInv
<1> QED  BY <1>2, <1>7, KeepsPage, KeepsStorage, ClearsCatalog, NamesApart
            DEF ChoiceInv, OptionsInv

LEMMA DownloadFits ==
    ASSUME ChoiceInv, Download
    PROVE  OptionsInv' /\ CatalogInv'
<1>1. /\ catalog' = [NoCatalog EXCEPT !.status = "loading"]
      /\ downloads' = Stale \cup {[of |-> options.custom, current |-> TRUE]}
      /\ UNCHANGED <<options, settings, page, storage>>
    BY DEF Download
<1>2. catalog'.of = Null
    BY <1>1 DEF NoCatalog
<1>3. ASSUME NEW d \in downloads'
      PROVE  d = [of |-> d.of, current |-> d.current] /\ (d.current = TRUE => d.of = options.custom)
    <2>1. CASE d = [of |-> options.custom, current |-> TRUE]
        BY <2>1
    <2>2. CASE d \in Stale
        <3>1. PICK e \in downloads : d = [e EXCEPT !.current = FALSE]
            BY <2>2 DEF Stale
        <3>2. e = [of |-> e.of, current |-> e.current]
            BY DEF ChoiceInv, CatalogInv
        <3>3. d = [of |-> e.of, current |-> FALSE]
            BY <3>1, <3>2, Gone
        <3> QED  BY <3>3
    <2> QED  BY <1>1, <2>1, <2>2
<1>4. CatalogInv'
    BY <1>1, <1>2, <1>3 DEF CatalogInv, CatalogFits
<1> QED  BY <1>1, <1>4, KeepsOptions, KeepsPage, KeepsStorage DEF ChoiceInv, OptionsInv

LEMMA DownloadedFits ==
    ASSUME ChoiceInv, NEW d \in downloads, Downloaded(d)
    PROVE  OptionsInv' /\ CatalogInv'
<1>1. UNCHANGED <<options, settings, page, storage>>
    BY DEF Downloaded
<1>2. downloads' \subseteq downloads
    BY DEF Downloaded
<1>3. CatalogFits'
    <2>1. CASE Counts(d)
        <3>1. catalog'.of \in {d.of, Null}
            BY <2>1 DEF Downloaded
        <3>2. d.of = options.custom
            BY <2>1 DEF Counts, ChoiceInv, CatalogInv
        <3> QED  BY <1>1, <3>1, <3>2 DEF CatalogFits
    <2>2. CASE ~Counts(d)
        BY <1>1, <2>2 DEF Downloaded, CatalogFits, ChoiceInv, CatalogInv
    <2> QED  BY <2>1, <2>2
<1>4. CatalogInv'
    BY <1>1, <1>2, <1>3 DEF CatalogInv, ChoiceInv
<1> QED  BY <1>1, <1>4, KeepsOptions, KeepsPage, KeepsStorage DEF ChoiceInv, OptionsInv

LEMMA SendFits ==
    ASSUME ChoiceInv, Send
    PROVE  OptionsInv' /\ CatalogInv'
<1>1. UNCHANGED <<options, catalog, downloads, settings>>
    BY DEF Send
<1>2. StorageFits'
    <2>1. \/ UNCHANGED storage
          \/ storage' = Persisted(Config(options, Override(options)))
        BY DEF Send, Execute
    <2> QED  BY <2>1, StoringFits DEF ChoiceInv
<1>3. PageFits'
    <2>1. \/ page' = [page EXCEPT !.asking = TRUE]
          \/ page' = [page EXCEPT !.configured = TRUE]
        BY DEF Send
    <2> QED  BY <2>1 DEF ChoiceInv, PageFits
<1> QED  BY <1>1, <1>2, <1>3, KeepsOptions, KeepsCatalog DEF ChoiceInv, OptionsInv

LEMMA ConfirmFits ==
    ASSUME ChoiceInv, Confirm
    PROVE  OptionsInv' /\ CatalogInv'
<1>1. ~settings.open /\ UNCHANGED <<catalog, downloads, settings>>
      /\ page' = [page EXCEPT !.asking = FALSE, !.configured = TRUE]
    BY DEF Confirm
<1>2. /\ Fits(options') /\ options'.custom = options.custom
      /\ StorageFits'
    <2>1. CASE options' = SystemDefault(options) /\ Execute(options', NoOverride)
        <3>1. Fits(options') /\ options'.custom = options.custom
            BY <2>1, SystemFits DEF ChoiceInv
        <3>2. UNCHANGED storage \/ storage' = Persisted(Config(options', NoOverride))
            BY <2>1 DEF Execute
        <3> QED  BY <3>1, <3>2, StoringFits DEF ChoiceInv
    <2>2. CASE /\ options' = options
               /\ \/ UNCHANGED storage
                  \/ Execute(options, Override(options))
        <3>1. UNCHANGED storage \/ storage' = Persisted(Config(options, Override(options)))
            BY <2>2 DEF Execute
        <3> QED  BY <2>2, <3>1, StoringFits DEF ChoiceInv
    <2>3. CASE options' = WithChoice(options, Custom) /\ UNCHANGED storage
        <3>1. Custom \in Presets \cup {Custom, Null}
            OBVIOUS
        <3>2. Fits(options') /\ options'.custom = options.custom
            BY <2>3, <3>1, ChoiceLoose DEF ChoiceInv, Fits
        <3> QED  BY <2>3, <3>2, KeepsStorage DEF ChoiceInv
    <2> QED  BY <2>1, <2>2, <2>3 DEF Confirm
<1>3. SettingsFit'
    BY <1>1 DEF ChoiceInv, SettingsFit
<1>4. PageFits'
    BY <1>1 DEF ChoiceInv, PageFits
<1> QED  BY <1>1, <1>2, <1>3, <1>4, KeepsCatalog DEF ChoiceInv, OptionsInv

LEMMA ArrivesFits ==
    ASSUME ChoiceInv, DetailArrives
    PROVE  OptionsInv' /\ CatalogInv'
<1>1. PICK exists, c, l : /\ exists = (page.session \in known)
                          /\ c = (Restored(page.session, exists) # Null)
                          /\ l = TRUE
    OBVIOUS
<1>2. /\ Becomes(Applied(Restored(page.session, exists)))
      /\ page' = [page EXCEPT !.loaded = TRUE, !.exists = exists, !.configured = c]
      /\ catalog' = NoCatalog /\ downloads' = Stale
      /\ UNCHANGED storage
    BY <1>1, Zenon DEF DetailArrives
<1>3. Fits(options') /\ SettingsFit'
    BY AppliedFits, SteadyFits, <1>2 DEF ChoiceInv, PageFits
<1>4. PageFits'
    <2>1. page' = [page EXCEPT !.loaded = l, !.exists = exists, !.configured = c]
        BY <1>1, <1>2
    <2> QED  BY <2>1 DEF ChoiceInv, PageFits
<1> QED  BY <1>2, <1>3, <1>4, KeepsStorage, ClearsCatalog, NamesApart DEF ChoiceInv, OptionsInv

LEMMA OpenSessionFits ==
    ASSUME ChoiceInv, NEW s \in Session, OpenSession(s)
    PROVE  OptionsInv' /\ CatalogInv'
<1>1. /\ page' = [session |-> s, loaded |-> FALSE, exists |-> FALSE, configured |-> FALSE,
                  asking |-> FALSE]
      /\ UNCHANGED <<options, catalog, downloads, settings, storage>>
    BY DEF OpenSession
<1>2. PageFits'
    BY <1>1 DEF PageFits
<1> QED  BY <1>1, <1>2, KeepsOptions, KeepsStorage, KeepsCatalog DEF ChoiceInv, OptionsInv

LEMMA ChoiceKeeps ==
    ASSUME ChoiceInv, [ChoiceStep]_choiceVars
    PROVE  ChoiceInv'
<1>1. OptionsInv' /\ CatalogInv' => ChoiceInv'
    BY DEF OptionsInv, ChoiceInv
<1>2. CASE UNCHANGED choiceVars
    <2>1. UNCHANGED <<options, settings, page, storage, catalog, downloads>>
        BY <1>2 DEF choiceVars
    <2> QED  BY <1>1, <2>1, KeepsOptions, KeepsPage, KeepsStorage, KeepsCatalog
             DEF ChoiceInv, OptionsInv
<1>3. CASE OpenSettings
    BY <1>1, <1>3, OpensSettings
<1>4. CASE CloseSettings
    BY <1>1, <1>4, ClosesSettings
<1>5. CASE Edit
    BY <1>1, <1>5, EditFits
<1>6. CASE QuickPick
    BY <1>1, <1>6, QuickPickFits
<1>7. CASE SetFields
    BY <1>1, <1>7, SetFieldsFits
<1>8. CASE Download
    BY <1>1, <1>8, DownloadFits
<1>9. CASE \E d \in downloads : Downloaded(d)
    BY <1>1, <1>9, DownloadedFits
<1>10. CASE Send
    BY <1>1, <1>10, SendFits
<1>11. CASE Confirm
    BY <1>1, <1>11, ConfirmFits
<1>12. CASE DetailArrives
    BY <1>1, <1>12, ArrivesFits
<1>13. CASE \E s \in Session : OpenSession(s)
    BY <1>1, <1>13, OpenSessionFits
<1> QED  BY <1>2, <1>3, <1>4, <1>5, <1>6, <1>7, <1>8, <1>9, <1>10, <1>11, <1>12, <1>13
         DEF ChoiceStep

-----------------------------------------------------------------------------
(* The initial state *)

\* Migration says how the address is read and keeps the rest.
LEMMA StoredMigrates ==
    ASSUME Stored # Null
    PROVE  LET o == Parsed(Stored)
           IN /\ o = [choice |-> Custom, default |-> Null, models |-> Stored.models,
                      kept |-> Stored.models, custom |-> o.custom]
              /\ o.custom = Migrated(Stored.custom)
              /\ o.custom.full \in BOOLEAN
              /\ o.custom.protocol = Stored.custom.protocol
              /\ o.custom.key = Stored.custom.key
<1>1. PICK u, m, s : u = Migrated(Stored.custom) /\ m = Stored.models /\ s = Stored.custom
    OBVIOUS
<1>2. Parsed(Stored) = [Stored EXCEPT !.custom = u]
    BY <1>1 DEF Parsed
<1>3. Stored = [choice |-> Custom, default |-> Null, models |-> m, kept |-> m, custom |-> s]
    BY <1>1, StoredTyped
<1>4. Parsed(Stored) = [choice |-> Custom, default |-> Null, models |-> m, kept |-> m,
                        custom |-> u]
    BY <1>2, <1>3
<1>5. PICK p, b, n, a, k : s = [protocol |-> p, base |-> b, full |-> n, auth |-> a, key |-> k]
    BY <1>1, StoredTyped
<1>6. u.full \in BOOLEAN /\ u.protocol = s.protocol /\ u.key = s.key
    <2>1. s.full = Null
        BY <1>1, StoredTyped
    <2>2. CASE u = [s EXCEPT !.full = FALSE]
        BY <1>5, <2>2
    <2>3. CASE u = [s EXCEPT !.full = TRUE,
                             !.base.path = Join(s.base.path, <<"v1", "messages">>)]
        BY <1>5, <2>3
    <2> QED  BY <1>1, <2>1, <2>2, <2>3 DEF Migrated
<1> QED  BY <1>1, <1>4, <1>6

LEMMA StoredFits == Stored # Null => Fits(Parsed(Stored))
<1> SUFFICES ASSUME Stored # Null PROVE Fits(Parsed(Stored))
    OBVIOUS
<1>1. PICK o : o = Parsed(Stored)
    OBVIOUS
<1>2. PICK m : m = Stored.models
    OBVIOUS
<1>3. /\ m = [main |-> m.main, auxiliary |-> m.auxiliary, follows |-> m.follows,
              touched |-> TRUE]
      /\ m.follows \in BOOLEAN
      /\ Stored.custom.protocol \in Protocols \ {Null}
    BY <1>2, StoredTyped
<1>4. m.touched = TRUE
    BY <1>3
<1>5. IsModels(m)
    BY <1>3, <1>4 DEF IsModels
<1>6. /\ o.choice = Custom /\ o.default = Null /\ o.models = m /\ o.kept = m
      /\ o = [choice |-> o.choice, default |-> o.default, models |-> o.models,
              kept |-> o.kept, custom |-> o.custom]
      /\ o.custom.full \in BOOLEAN
      /\ o.custom.protocol \in Protocols \ {Null}
    BY <1>1, <1>2, <1>3, StoredMigrates
<1> QED  BY <1>1, <1>4, <1>5, <1>6 DEF Fits, Loose, Suits

LEMMA ChoiceStarts == ChoiceInit => ChoiceInv
<1> SUFFICES ASSUME ChoiceInit PROVE ChoiceInv
    OBVIOUS
<1>1. Fits(options)
    BY FreshFits DEF ChoiceInit
<1>2. SettingsFit
    BY DEF ChoiceInit, SettingsFit
<1>3. PageFits
    BY DEF ChoiceInit, PageFits
<1>4. StorageFits
    BY StoredFits DEF ChoiceInit, StorageFits
<1>5. CatalogInv
    BY DEF ChoiceInit, CatalogInv, CatalogFits, NoCatalog
<1> QED  BY <1>1, <1>2, <1>3, <1>4, <1>5 DEF ChoiceInv

\* The options always have models that suit the choice, in the store and in
\* storage, and the revision is that of the fields.
THEOREM ChoiceInvariant == ChoiceSpec => []ChoiceInv
    BY ChoiceStarts, ChoiceKeeps, PTL DEF ChoiceSpec

-----------------------------------------------------------------------------
(* What is shown is what runs *)

\* Only two parts of an address are told apart here: the origin and the path.
LEMMA ReadPath ==
    \A base, protocol, mode : mode \in {"full", "auto"} =>
        ResolveAddress(base, protocol, mode).generation =
            [origin |-> base.origin,
             path |-> IF mode = "full" THEN IF base.path = <<>> THEN <<"">> ELSE base.path
                      ELSE Join(IF base.path \in {<<>>, <<"">>} THEN <<"v1">> ELSE base.path,
                                Operation(protocol))]
<1>1. ASSUME NEW base, NEW protocol
      PROVE  ResolveAddress(base, protocol, "full").generation =
                [origin |-> base.origin,
                 path |-> IF base.path = <<>> THEN <<"">> ELSE base.path]
    BY Zenon DEF ResolveAddress
<1>2. ASSUME NEW base, NEW protocol
      PROVE  ResolveAddress(base, protocol, "auto").generation =
                [origin |-> base.origin,
                 path |-> Join(IF base.path \in {<<>>, <<"">>} THEN <<"v1">> ELSE base.path,
                               Operation(protocol))]
    BY Zenon DEF ResolveAddress
<1> QED
  <2>1. TAKE base, protocol, mode
  <2>2. CASE mode = "full"
    BY <1>1, <2>2
  <2>3. CASE mode = "auto"
    BY <1>2, <2>3
  <2> QED BY <2>2, <2>3

LEMMA CustomOverride ==
    ASSUME NEW o, o.choice = Custom
    PROVE  LET v == Override(o)
           IN /\ v.profile = Null /\ v.protocol = o.custom.protocol /\ v.base = o.custom.base
              /\ v.full = o.custom.full /\ v.auth = o.custom.auth /\ v.key = o.custom.key
              /\ v.main = o.models.main
              /\ v.auxiliary = IF o.models.auxiliary = o.models.main THEN Null
                               ELSE o.models.auxiliary
    BY DEF Override, NoOverride

LEMMA PresetOverride ==
    ASSUME NEW o, o.choice # Custom
    PROVE  LET v == Override(o)
           IN /\ v.profile = IF o.choice = o.default THEN Null ELSE o.choice
              /\ v.main = IF o.models.touched THEN o.models.main ELSE Null
              /\ v.auxiliary = IF o.models.follows \/ o.models.auxiliary = o.models.main THEN Null
                               ELSE o.models.auxiliary
              /\ \A field \in {"protocol", "base", "auth", "key", "full"} : v[field] = Null
    BY DEF Override, NoOverride

\* A custom endpoint runs where and what it says.
LEMMA CustomTarget ==
    ASSUME NEW o, Fits(o), o.choice = Custom, ~Incomplete(o)
    PROVE  LET v == Override(o)
               mode == IF o.custom.full THEN "full" ELSE "auto"
           IN /\ IsCustom(v) /\ Accepts(v)
              /\ Resolve(v) # Null => Target(v) =
                    [url |-> ResolveAddress(o.custom.base, o.custom.protocol, mode).generation,
                     main |-> o.models.main,
                     auxiliary |-> Or(v.auxiliary, o.models.main)]
<1> DEFINE v == Override(o)
<1>1. /\ v.profile = Null /\ v.protocol = o.custom.protocol /\ v.base = o.custom.base
      /\ v.full = o.custom.full /\ v.key = o.custom.key /\ v.main = o.models.main
    BY CustomOverride
<1>2. o.custom.base # Null /\ o.custom.key # Null /\ o.models.main # Null
    BY DEF Incomplete
<1>3. IsCustom(v) /\ Accepts(v)
    BY <1>1, <1>2 DEF IsCustom, Accepts
<1>4. o.custom.protocol # Null /\ o.custom.full \in BOOLEAN
    BY DEF Fits, Loose
<1>5. CustomProfile(v) = [protocol |-> o.custom.protocol, base |-> o.custom.base,
                          auth |-> Or(v.auth, "authorization"), key |-> v.key,
                          mode |-> AddressMode(v)]
    BY <1>1, <1>4 DEF CustomProfile, Or
<1>6. AddressMode(v) = IF o.custom.full THEN "full" ELSE "auto"
    BY <1>1, <1>4 DEF AddressMode
<1>7. Auxiliary(v, v.main) = Or(v.auxiliary, o.models.main)
    BY <1>1, <1>3 DEF Auxiliary, Or
<1>8. Resolve(v) = [profile |-> CustomProfile(v), main |-> v.main,
                    auxiliary |-> Auxiliary(v, v.main), shared |-> FALSE]
    BY <1>3 DEF Resolve
<1>9. PICK m, p, x, f, y : /\ m = AddressMode(v) /\ p = CustomProfile(v)
                           /\ x = Auxiliary(v, v.main) /\ f = FALSE /\ y = v.main
    OBVIOUS
<1>10. p.base = o.custom.base /\ p.protocol = o.custom.protocol /\ p.mode = m
    BY <1>5, <1>9
<1>11. PICK r : r = Resolve(v)
    OBVIOUS
<1>12. r = [profile |-> p, main |-> y, auxiliary |-> x, shared |-> f]
    BY <1>8, <1>9, <1>11
<1>13. r.profile = p /\ r.main = y /\ r.auxiliary = x
    BY <1>12
<1>14. r # Null =>
       Target(v) = [url |-> ResolveAddress(r.profile.base, r.profile.protocol,
                                           r.profile.mode).generation,
                    main |-> r.main, auxiliary |-> r.auxiliary]
    BY <1>11 DEF Target
<1> QED  BY <1>1, <1>3, <1>6, <1>7, <1>9, <1>10, <1>11, <1>13, <1>14

LEMMA CustomIsShown ==
    ASSUME NEW o, Fits(o), o.choice = Custom, ~Incomplete(o), Target(Override(o)) # Null
    PROVE  LET t == Target(Override(o))
           IN /\ t.main = Shown(o)
              /\ t.url.origin = o.custom.base.origin
              /\ t.url.path = Described(o.custom)
<1>1. PICK mode, b, p : /\ mode = IF o.custom.full THEN "full" ELSE "auto"
                        /\ b = o.custom.base /\ p = o.custom.protocol
    OBVIOUS
<1>2. /\ Target(Override(o)).main = o.models.main
      /\ Target(Override(o)).url = ResolveAddress(b, p, mode).generation
    <2>1. Resolve(Override(o)) # Null
        BY DEF Target
    <2> QED  BY <1>1, <2>1, CustomTarget
<1>3. mode \in {"full", "auto"} /\ (mode = "full" <=> o.custom.full)
    BY <1>1 DEF Fits, Loose
<1>4. PICK path : path = IF mode = "full" THEN IF b.path = <<>> THEN <<"">> ELSE b.path
                         ELSE Join(IF b.path \in {<<>>, <<"">>} THEN <<"v1">> ELSE b.path,
                                   Operation(p))
    OBVIOUS
<1>5. ResolveAddress(b, p, mode).generation = [origin |-> b.origin, path |-> path]
    BY <1>3, <1>4, ReadPath, Zenon
<1>6. path = Described(o.custom)
    BY <1>1, <1>3, <1>4, Zenon DEF Described
<1>7. Shown(o) = o.models.main
    BY DEF Shown, Or, Incomplete
<1>8. /\ Target(Override(o)).url.origin = b.origin /\ Target(Override(o)).url.path = path
    BY <1>2, <1>5
<1> QED  BY <1>1, <1>2, <1>6, <1>7, <1>8

LEMMA PresetIsShown ==
    ASSUME NEW o, Fits(o), o.choice # Custom
    PROVE  LET v == Override(o)
           IN /\ Accepts(v) /\ ~IsCustom(v)
              /\ Chosen(v) = Or(o.choice, DefaultProfile)
              /\ Target(v) # Null => Target(v).main = Shown(o)
<1> DEFINE v == Override(o)
<1>1. /\ v.profile = IF o.choice = o.default THEN Null ELSE o.choice
      /\ v.main = IF o.models.touched THEN o.models.main ELSE Null
      /\ v.base = Null
      /\ \A field \in {"protocol", "base", "auth", "key", "full"} : v[field] = Null
    <2>1. "base" \in {"protocol", "base", "auth", "key", "full"}
        OBVIOUS
    <2>2. \A field \in {"protocol", "base", "auth", "key", "full"} : v[field] = Null
        BY PresetOverride
    <2>3. v["base"] = Null
        BY <2>1, <2>2
    <2> QED  BY <2>2, <2>3, PresetOverride
<1>2. Accepts(v) /\ ~IsCustom(v)
    BY <1>1 DEF Accepts, IsCustom
<1>3. Chosen(v) = Or(o.choice, DefaultProfile)
    BY <1>1 DEF Chosen, Or, Fits, Loose
<1>4. ASSUME Target(v) # Null
      PROVE  Target(v).main = Shown(o)
    <2>1. PICK r, main, d : /\ r = Resolve(v) /\ d = Definitions[Chosen(v)].main
                            /\ main = Or(v.main, d)
        OBVIOUS
    <2>2. r # Null
        BY <1>4, <2>1 DEF Target
    <2>3. r.main = main
        BY <1>2, <2>1, <2>2 DEF Resolve
    <2>4. Target(v).main = r.main
        BY <1>4, <2>1, <2>2 DEF Target
    <2>5. Shown(o) = Or(o.models.main, d)
        BY <1>3, <2>1 DEF Shown
    <2>6. main = Or(o.models.main, d)
        <3>1. CASE o.models.touched
            BY <1>1, <2>1, <3>1
        <3>2. CASE ~o.models.touched
            <4>1. o.models.main = Null \/ o.models.main = d
                BY <1>3, <2>1, <3>2 DEF Fits, Suits
            <4> QED  BY <1>1, <2>1, <3>2, <4>1 DEF Or
        <3> QED  BY <3>1, <3>2
    <2> QED  BY <2>3, <2>4, <2>5, <2>6
<1> QED  BY <1>2, <1>3, <1>4

\* What the page shows is what a message runs: model, endpoint and path.
THEOREM ShownRuns == ChoiceSpec => []ShownIsRun
<1>1. ChoiceInv => ShownIsRun
    BY CustomTarget, CustomIsShown, PresetIsShown DEF ChoiceInv, ShownIsRun
<1> QED  BY <1>1, ChoiceInvariant, PTL

\* The model list of a custom endpoint is never another endpoint's, however
\* late the downloads of former fields end.
THEOREM CatalogStaysFitting == ChoiceSpec => []CatalogFits
<1>1. ChoiceInv => CatalogFits
    BY DEF ChoiceInv, CatalogInv
<1> QED  BY <1>1, ChoiceInvariant, PTL

-----------------------------------------------------------------------------
(* A session opened again *)

\* Null is none of the records that the code tells it apart from.
NullIsNoRecord ==
    /\ \A c, d, m, k, u : Null # [choice |-> c, default |-> d, models |-> m, kept |-> k,
                                  custom |-> u]
    /\ \A p, m, a, s : Null # [profile |-> p, main |-> m, auxiliary |-> a, shared |-> s]
    /\ \A o, p : Null # [origin |-> o, path |-> p]

\* The one address that migration does not keep (the comment of
\* migrateAddressMode): a root that was not read the way of Anthropic.
StoredKept ==
    Stored # Null =>
        \/ Stored.custom.protocol = "anthropic_messages"
        \/ Stored.custom.base.path \notin {<<>>, <<"">>}

\* The name of the preset is not part of what runs, its definition is.
LEMMA SameTarget ==
    ASSUME NEW v, NEW w, v.base = Null, w.base = Null, Chosen(v) = Chosen(w),
           v.main = w.main, v.auxiliary = w.auxiliary
    PROVE  Target(v) = Target(w)
<1>1. ~IsCustom(v) /\ ~IsCustom(w)
    BY DEF IsCustom
<1>2. \A m : Auxiliary(v, m) = Auxiliary(w, m)
    BY <1>1 DEF Auxiliary
<1>3. PICK p, m : p = Chosen(v) /\ m = Or(v.main, Definitions[p].main)
    OBVIOUS
<1>4. /\ Resolve(v) = IF p \in Available
                      THEN [profile |-> PresetProfile(p), main |-> m,
                            auxiliary |-> Auxiliary(v, m), shared |-> TRUE]
                      ELSE Null
      /\ Resolve(w) = IF p \in Available
                      THEN [profile |-> PresetProfile(p), main |-> m,
                            auxiliary |-> Auxiliary(w, m), shared |-> TRUE]
                      ELSE Null
    BY <1>1, <1>3, Zenon DEF Resolve
<1>5. Auxiliary(v, m) = Auxiliary(w, m)
    BY <1>2
<1>6. Resolve(v) = Resolve(w)
    BY <1>4, <1>5
<1> QED  BY <1>6, Zenon DEF Target

LEMMA SameCustomTarget ==
    ASSUME NEW v, NEW w, v.base = w.base, v.base # Null,
           v.protocol = w.protocol, v.full = w.full, v.auth = w.auth, v.key = w.key,
           v.main = w.main, v.auxiliary = w.auxiliary
    PROVE  Target(v) = Target(w)
<1>1. IsCustom(v) /\ IsCustom(w)
    BY DEF IsCustom
<1>2. Auxiliary(v, v.main) = Auxiliary(w, w.main)
    BY <1>1 DEF Auxiliary, Or
<1>3. AddressMode(v) = AddressMode(w)
    BY DEF AddressMode
<1>4. CustomProfile(v) = CustomProfile(w)
    BY <1>3 DEF CustomProfile, Or
<1>5. /\ Resolve(v) = [profile |-> CustomProfile(v), main |-> v.main,
                       auxiliary |-> Auxiliary(v, v.main), shared |-> FALSE]
      /\ Resolve(w) = [profile |-> CustomProfile(w), main |-> w.main,
                       auxiliary |-> Auxiliary(w, w.main), shared |-> FALSE]
    BY <1>1 DEF Resolve
<1>6. Resolve(v) = Resolve(w)
    BY <1>2, <1>4, <1>5
<1> QED  BY <1>6, Zenon DEF Target

LEMMA PresetBase ==
    ASSUME NEW o, o.choice # Custom
    PROVE  Override(o).base = Null
<1>1. "base" \in {"protocol", "base", "auth", "key", "full"}
    OBVIOUS
<1>2. Override(o)["base"] = Null
    BY <1>1, PresetOverride
<1> QED  BY <1>2

LEMMA DefaultIsNoMatter ==
    ASSUME NEW o, Fits(o), NEW d \in {Null, DefaultProfile}
    PROVE  LET w == [o EXCEPT !.default = d]
           IN /\ ~Incomplete(o) => Target(Override(w)) = Target(Override(o))
              /\ Incomplete(w) <=> Incomplete(o)
<1>1. PICK w : w = [o EXCEPT !.default = d]
    OBVIOUS
<1>2. /\ w.choice = o.choice /\ w.models = o.models /\ w.custom = o.custom /\ w.default = d
      /\ Fits(w)
    <2>1. w = [choice |-> o.choice, default |-> d, models |-> o.models, kept |-> o.kept,
               custom |-> o.custom] /\ Fits(w)
        BY <1>1, DefaultFits
    <2> QED  BY <2>1
<1>3. Incomplete(w) <=> Incomplete(o)
    BY <1>2 DEF Incomplete
<1>4. CASE o.choice = Custom
    <2>1. ~Incomplete(o) => Target(Override(w)) = Target(Override(o))
        <3>1. ~Incomplete(o) => o.custom.base # Null
            BY <1>4 DEF Incomplete
        <3> QED  BY <1>2, <1>4, <3>1, CustomOverride, SameCustomTarget
    <2> QED  BY <1>1, <1>3, <2>1
<1>5. CASE o.choice # Custom
    <2>1. Override(o).base = Null /\ Override(w).base = Null
        BY <1>2, <1>5, PresetBase
    <2>2. Chosen(Override(o)) = Chosen(Override(w))
        BY <1>2, <1>5, PresetIsShown
    <2>3. /\ Override(o).main = Override(w).main
          /\ Override(o).auxiliary = Override(w).auxiliary
        BY <1>2, <1>5, PresetOverride
    <2>4. Target(Override(w)) = Target(Override(o))
        BY <2>1, <2>2, <2>3, SameTarget
    <2> QED  BY <1>1, <1>3, <2>4
<1> QED  BY <1>4, <1>5

\* Untouched options of the default are sent as no override at all.
LEMMA DefaultOverride ==
    ASSUME NEW o, o.choice # Custom, o.choice = o.default \/ o.choice = Null,
           o.models = Untouched
    PROVE  Override(o) = NoOverride
<1>1. /\ o.models.touched = FALSE /\ o.models.follows = TRUE
    BY DEF Untouched
<1>2. /\ (IF o.choice = o.default THEN Null ELSE o.choice) = Null
      /\ (IF o.models.touched THEN o.models.main ELSE Null) = Null
      /\ (IF o.models.follows \/ o.models.auxiliary = o.models.main THEN Null
          ELSE o.models.auxiliary) = Null
    BY <1>1
<1>3. Override(o) = [NoOverride EXCEPT !.profile = Null, !.main = Null, !.auxiliary = Null]
    BY <1>2, Zenon DEF Override
<1>4. PICK n : n = NoOverride
    OBVIOUS
<1>5. /\ n = [profile |-> Null, protocol |-> Null, base |-> Null, full |-> Null,
              auth |-> Null, key |-> Null, main |-> Null, auxiliary |-> Null]
    BY <1>4, Zenon DEF NoOverride
<1>6. [n EXCEPT !.profile = Null] = n
    BY <1>5
<1>7. [n EXCEPT !.main = Null] = n
    BY <1>5
<1>8. [n EXCEPT !.auxiliary = Null] = n
    BY <1>5
<1>9. [n EXCEPT !.profile = Null, !.main = Null, !.auxiliary = Null]
      = [[[n EXCEPT !.profile = Null] EXCEPT !.main = Null] EXCEPT !.auxiliary = Null]
    BY Zenon
<1> QED  BY <1>3, <1>4, <1>6, <1>7, <1>8, <1>9, Zenon

\* What is stored of a message runs as the message did.
LEMMA ConfigTarget ==
    ASSUME NEW o, Fits(o), ~Incomplete(o)
    PROVE  LET w == Config(o, Override(o))
           IN Target(Override(w)) = Target(Override(o)) /\ ~Incomplete(w)
<1>1. PICK w, v : v = Override(o) /\ w = Config(o, v)
    OBVIOUS
<1>2. CASE v # NoOverride
    <2>1. w = [o EXCEPT !.default = Null]
        BY <1>1, <1>2, ConfigFits
    <2> QED  BY <1>1, <2>1, DefaultIsNoMatter
<1>3. CASE v = NoOverride
    <2>1. w.choice = Null /\ w.models = Untouched
        BY <1>1, <1>3, ConfigFits
    <2>2. w.choice # Custom
        BY <2>1, Apart
    <2>3. Override(w) = NoOverride
        BY <2>1, <2>2, DefaultOverride
    <2>4. ~Incomplete(w)
        BY <2>2 DEF Incomplete
    <2> QED  BY <1>1, <1>3, <2>3, <2>4
<1> QED  BY <1>2, <1>3

-----------------------------------------------------------------------------
(* What was stored before address modes *)

\* The segment after a final slash.
Empty == ""

Segments == STRING \cup {"v1", "responses", "chat", "completions", "messages", Empty}

Trim(path) == IF Slashed(path) THEN Front(path) ELSE path

LEMMA SlashedIs ==
    \A path : Slashed(path) <=> path # <<>> /\ Last(path) = Empty
    BY Zenon DEF Slashed, Empty

LEMMA JoinIs == \A path, suffix : Join(path, suffix) = Trim(path) \o suffix
    BY Zenon DEF Join, Trim

LEMMA TrimIsSeq ==
    ASSUME NEW path \in Seq(Segments)
    PROVE  Trim(path) \in Seq(Segments)
<1>1. PICK n \in Nat : n = Len(path) /\ \A i \in 1 .. n : path[i] \in Segments
    BY LenProperties, ElementOfSeq
<1>2. \A i \in 1 .. n - 1 : path[i] \in Segments
    BY <1>1
<1>3. SubSeq(path, 1, n - 1) \in Seq(Segments)
    <2>1. 1 \in Int /\ n - 1 \in Int
        OBVIOUS
    <2> QED  BY <1>2, <2>1, SubSeqProperties
<1> QED  BY <1>1, <1>3 DEF Trim, Front

LEMMA OneIsSeq ==
    ASSUME NEW x \in Segments
    PROVE  <<x>> \in Seq(Segments)
    OBVIOUS

\* A path that ends in a word is not trimmed.
LEMMA EndsInWord ==
    ASSUME NEW t \in Seq(Segments), NEW x \in Segments, x # Empty
    PROVE  Trim(t \o <<x>>) = t \o <<x>> /\ t \o <<x>> # <<>>
<1>1. PICK n, w, e : n \in Nat /\ n = Len(t) /\ w = t \o <<x>> /\ e = <<x>>
    BY LenProperties
<1>a. n \in Nat
    BY <1>1
<1> USE <1>a
<1>2. e \in Seq(Segments) /\ Len(e) = 1 /\ e[1] = x
    BY <1>1, OneIsSeq
<1>3. /\ w \in Seq(Segments) /\ Len(w) = n + 1
      /\ \A i \in 1 .. n + 1 : w[i] = IF i <= n THEN t[i] ELSE e[i - n]
    <2>1. w = t \o e
        BY <1>1
    <2> QED  BY <1>1, <1>2, <2>1, ConcatProperties
<1>4. w[n + 1] = x
    <2>1. n + 1 \in 1 .. n + 1 /\ ~(n + 1 <= n) /\ n + 1 - n = 1
        OBVIOUS
    <2> QED  BY <1>2, <1>3, <2>1
<1>5. Last(w) = x
    BY <1>3, <1>4 DEF Last
<1>6. w # <<>>
    BY <1>3
<1>7. ~Slashed(w)
    BY <1>5, SlashedIs
<1> QED  BY <1>1, <1>6, <1>7 DEF Trim

\* Two words are joined one after the other or at once.
LEMMA JoinsTwice ==
    ASSUME NEW path \in Seq(Segments), NEW x \in Segments, x # Empty, NEW y \in Segments
    PROVE  /\ Join(Join(path, <<x>>), <<y>>) = Join(path, <<x, y>>)
           /\ Join(path, <<x, y>>) # <<>>
<1>1. PICK t : t = Trim(path)
    OBVIOUS
<1>2. t \in Seq(Segments)
    BY <1>1, TrimIsSeq
<1>3. Trim(t \o <<x>>) = t \o <<x>>
    BY <1>2, EndsInWord
<1>4. <<x>> \in Seq(Segments) /\ <<y>> \in Seq(Segments)
    BY OneIsSeq
<1>5. (t \o <<x>>) \o <<y>> = t \o (<<x>> \o <<y>>)
    BY <1>2, <1>4, ConcatAssociative
<1>6. <<x>> \o <<y>> = <<x, y>>
    <2>1. PICK a, b, c : a = <<x>> /\ b = <<y>> /\ c = <<x, y>>
        OBVIOUS
    <2>2. /\ a \in Seq(Segments) /\ Len(a) = 1 /\ a[1] = x
          /\ b \in Seq(Segments) /\ Len(b) = 1 /\ b[1] = y
          /\ c \in Seq(Segments) /\ Len(c) = 2 /\ c[1] = x /\ c[2] = y
        BY <2>1
    <2>3. /\ a \o b \in Seq(Segments) /\ Len(a \o b) = 2
          /\ \A i \in 1 .. 2 : (a \o b)[i] = IF i <= 1 THEN a[i] ELSE b[i - 1]
        <3>1. /\ a \o b \in Seq(Segments) /\ Len(a \o b) = Len(a) + Len(b)
              /\ \A i \in 1 .. Len(a) + Len(b) :
                    (a \o b)[i] = IF i <= Len(a) THEN a[i] ELSE b[i - Len(a)]
            <4>1. a \in Seq(Segments) /\ b \in Seq(Segments)
                BY <2>2
            <4> QED  BY <4>1, ConcatProperties
        <3>2. Len(a) = 1 /\ Len(b) = 1 /\ Len(a) + Len(b) = 2
            BY <2>2
        <3> QED  BY <3>1, <3>2
    <2>4. 1 \in 1 .. 2 /\ 2 \in 1 .. 2 /\ ~(2 <= 1) /\ 2 - 1 = 1
        OBVIOUS
    <2>5. (a \o b)[1] = c[1] /\ (a \o b)[2] = c[2]
        BY <2>2, <2>3, <2>4
    <2>6. \A i \in 1 .. 2 : i = 1 \/ i = 2
        OBVIOUS
    <2>7. a \o b = c
        <3>1. \A i \in 1 .. Len(c) : (a \o b)[i] = c[i]
            BY <2>2, <2>5, <2>6
        <3> QED  BY <2>2, <2>3, <3>1, SeqEqual
    <2> QED  BY <2>1, <2>7
<1>7. t \o <<x, y>> # <<>>
    <2>1. PICK e : e = <<x, y>>
        OBVIOUS
    <2>2. e \in Seq(Segments) /\ Len(e) = 2
        BY <2>1
    <2>3. Len(t) \in Nat
        BY <1>2, LenProperties
    <2>4. Len(t \o e) # 0
        <3>1. Len(t \o e) = Len(t) + Len(e)
            BY <1>2, <2>2, ConcatProperties
        <3> QED  BY <2>2, <2>3, <3>1
    <2>5. t \o e # <<>>
        BY <2>4
    <2> QED  BY <2>1, <2>5
<1> QED  BY <1>1, <1>3, <1>5, <1>6, <1>7, JoinIs

LEMMA Words ==
    /\ "v1" \in Segments /\ "v1" # Empty
    /\ "messages" \in Segments
    /\ \A path \in Seq(STRING) : path \in Seq(Segments)
    /\ <<>> \in Seq(Segments) /\ <<Empty>> \in Seq(Segments)
<1>1. "v1" # Empty
    BY Zenon DEF Empty
<1>2. "v1" \in Segments /\ "messages" \in Segments
    BY DEF Segments
<1>3. \A path \in Seq(STRING) : path \in Seq(Segments)
    <2>1. STRING \subseteq Segments
        BY DEF Segments
    <2> QED  BY <2>1, SeqMonotonic
<1>4. Empty \in Segments
    BY DEF Segments
<1>5. <<>> \in Seq(Segments)
    OBVIOUS
<1> QED  BY <1>1, <1>2, <1>3, <1>4, <1>5, OneIsSeq

LEMMA NativePath ==
    \A base, protocol :
        ResolveAddress(base, protocol, "sdk_native").generation =
            [origin |-> base.origin,
             path |-> Join(IF protocol = "anthropic_messages" THEN Join(base.path, <<"v1">>)
                           ELSE base.path, Operation(protocol))]
    BY Zenon DEF ResolveAddress

\* A root gains v1 in every reading of Anthropic's.
LEMMA RootOfAnthropic ==
    ASSUME NEW path \in {<<>>, <<Empty>>}
    PROVE  Join(Join(path, <<"v1">>), <<"messages">>) = Join(<<"v1">>, <<"messages">>)
<1>1. path \in Seq(Segments)
    BY Words
<1>2. Trim(path) = <<>>
    <2>1. CASE path = <<>>
        BY <2>1, SlashedIs DEF Trim
    <2>2. CASE path = <<Empty>>
        <3>1. Front(path) = <<>>
            BY <2>2 DEF Front
        <3>2. Slashed(path)
            BY <2>2, SlashedIs DEF Last
        <3> QED  BY <3>1, <3>2 DEF Trim
    <2> QED  BY <2>1, <2>2
<1>3. PICK x, y : x = "v1" /\ y = "messages"
    OBVIOUS
<1>4. x \in Segments /\ y \in Segments /\ x # Empty
    BY <1>3, Words
<1>5. Join(path, <<x>>) = <<x>>
    BY <1>2, JoinIs
<1> QED  BY <1>3, <1>5

LEMMA MigratedIs ==
    ASSUME NEW u, u.full = Null, u.base # Null
    PROVE  Migrated(u) =
                IF u.protocol = "anthropic_messages" /\ u.base.path \notin {<<>>, <<Empty>>}
                THEN [u EXCEPT !.full = TRUE,
                               !.base.path = Join(u.base.path, <<"v1", "messages">>)]
                ELSE [u EXCEPT !.full = FALSE]
    BY Zenon DEF Migrated, Empty

LEMMA KeptIs ==
    StoredKept /\ Stored # Null =>
        \/ Stored.custom.protocol = "anthropic_messages"
        \/ Stored.custom.base.path \notin {<<>>, <<Empty>>}
    BY Zenon DEF StoredKept, Empty

LEMMA FullPath ==
    \A base, protocol : base.path # <<>> =>
        ResolveAddress(base, protocol, "full").generation =
            [origin |-> base.origin, path |-> base.path]
    BY ReadPath, Zenon

LEMMA AutoPath ==
    \A base, protocol :
        ResolveAddress(base, protocol, "auto").generation =
            [origin |-> base.origin,
             path |-> Join(IF base.path \in {<<>>, <<Empty>>} THEN <<"v1">> ELSE base.path,
                           Operation(protocol))]
    BY ReadPath, Zenon DEF Empty

\* Where stored fields led to, and where they lead to now.
AddressBefore(u) == ResolveAddress(u.base, u.protocol, "sdk_native").generation

AddressNow(m) ==
    ResolveAddress(m.base, m.protocol, IF m.full THEN "full" ELSE "auto").generation

\* The migrated address is the one of before.
LEMMA AddressKept ==
    ASSUME NEW u, NEW origin, NEW path \in Seq(STRING),
           u.base = [origin |-> origin, path |-> path], u.full = Null, u.base # Null,
           u = [protocol |-> u.protocol, base |-> u.base, full |-> u.full, auth |-> u.auth,
                key |-> u.key],
           u.protocol = "anthropic_messages" \/ path \notin {<<>>, <<Empty>>}
    PROVE  /\ AddressNow(Migrated(u)) = AddressBefore(u)
           /\ \E p : Migrated(u).base = [origin |-> origin, path |-> p]
<1>1. path \in Seq(Segments) /\ u.base.path = path /\ u.base.origin = origin
    BY Words
<1>2. PICK g : g = ResolveAddress(u.base, u.protocol, "sdk_native").generation
    OBVIOUS
<1>3. g = [origin |-> origin,
           path |-> Join(IF u.protocol = "anthropic_messages" THEN Join(path, <<"v1">>)
                         ELSE path, Operation(u.protocol))]
    BY <1>1, <1>2, NativePath
<1>4. PICK m : m = Migrated(u)
    OBVIOUS
<1>5. u.protocol = "anthropic_messages" => Operation(u.protocol) = <<"messages">>
    BY DEF Operation
<1>6. PICK pr, au, k, b : /\ pr = u.protocol /\ au = u.auth /\ k = u.key /\ b = u.base
    OBVIOUS
<1>7. u = [protocol |-> pr, base |-> b, full |-> Null, auth |-> au, key |-> k]
    BY <1>6
<1>8. CASE u.protocol = "anthropic_messages" /\ path \notin {<<>>, <<Empty>>}
    <2>1. PICK j : j = Join(path, <<"v1", "messages">>)
        OBVIOUS
    <2>2. m = [u EXCEPT !.full = TRUE, !.base.path = j]
        BY <1>1, <1>4, <1>8, <2>1, MigratedIs
    <2>3. m.full = TRUE /\ m.protocol = pr /\ m.base = [b EXCEPT !.path = j]
        BY <1>7, <2>2
    <2>4. m.base = [origin |-> origin, path |-> j]
        BY <1>6, <2>3
    <2>5. j = Join(Join(path, <<"v1">>), <<"messages">>) /\ j # <<>>
        BY <1>1, <2>1, Words, JoinsTwice
    <2>6. ResolveAddress(m.base, m.protocol, "full").generation = [origin |-> origin, path |-> j]
        BY <2>4, <2>5, FullPath
    <2>7. g = [origin |-> origin, path |-> j]
        BY <1>3, <1>5, <1>8, <2>5
    <2>8. AddressNow(m) = g
        BY <2>3, <2>6, <2>7, Zenon DEF AddressNow
    <2> QED  BY <1>2, <1>4, <2>4, <2>8 DEF AddressBefore
<1>9. CASE ~(u.protocol = "anthropic_messages" /\ path \notin {<<>>, <<Empty>>})
    <2>1. m = [u EXCEPT !.full = FALSE]
        BY <1>1, <1>4, <1>9, MigratedIs
    <2>2. m.full = FALSE /\ m.protocol = pr /\ m.base = b
        BY <1>7, <2>1
    <2>3. PICK j : j = Join(IF path \in {<<>>, <<Empty>>} THEN <<"v1">> ELSE path,
                            Operation(u.protocol))
        OBVIOUS
    <2>4. ResolveAddress(m.base, m.protocol, "auto").generation = [origin |-> origin, path |-> j]
        BY <1>1, <1>6, <2>2, <2>3, AutoPath
    <2>5. g = [origin |-> origin, path |-> j]
        <3>1. CASE path \in {<<>>, <<Empty>>}
            <4>1. u.protocol = "anthropic_messages"
                BY <3>1
            <4>2. j = Join(<<"v1">>, <<"messages">>)
                BY <1>5, <2>3, <3>1, <4>1
            <4>3. Join(Join(path, <<"v1">>), <<"messages">>) = j
                BY <3>1, <4>2, RootOfAnthropic
            <4> QED  BY <1>3, <1>5, <4>1, <4>3
        <3>2. CASE path \notin {<<>>, <<Empty>>}
            <4>1. u.protocol # "anthropic_messages"
                BY <1>9, <3>2
            <4> QED  BY <1>3, <2>3, <3>2, <4>1
        <3> QED  BY <3>1, <3>2
    <2>6. AddressNow(m) = g
        BY <2>2, <2>4, <2>5, Zenon DEF AddressNow
    <2> QED  BY <1>1, <1>2, <1>4, <1>6, <2>2, <2>6 DEF AddressBefore
<1> QED  BY <1>8, <1>9

LEMMA StoredRuns ==
    ASSUME Stored # Null, StoredKept, NullIsNoRecord
    PROVE  LET o == Parsed(Stored)
           IN /\ ~Incomplete(o)
              /\ Target(Override(o)) =
                    [url |-> ResolveAddress(Stored.custom.base, Stored.custom.protocol,
                                            "sdk_native").generation,
                     main |-> Stored.models.main,
                     auxiliary |-> Or(Stored.models.auxiliary, Stored.models.main)]
<1>1. PICK o, u, m, g : /\ o = Parsed(Stored) /\ u = Stored.custom /\ m = Stored.models
                        /\ g = ResolveAddress(u.base, u.protocol, "sdk_native").generation
    OBVIOUS
<1>2. /\ Fits(o) /\ o.choice = Custom /\ o.models = m /\ o.custom = Migrated(u)
      /\ o.custom.protocol = u.protocol /\ o.custom.key = u.key /\ o.custom.full \in BOOLEAN
    BY <1>1, StoredFits, StoredMigrates
<1>3. /\ u = [protocol |-> u.protocol, base |-> u.base, full |-> u.full, auth |-> u.auth,
              key |-> u.key]
      /\ u.full = Null
      /\ u.base = [origin |-> u.base.origin, path |-> u.base.path]
      /\ u.base.path \in Seq(STRING)
      /\ u.base # Null /\ u.key # Null /\ m.main # Null
      /\ u.protocol = "anthropic_messages" \/ u.base.path \notin {<<>>, <<Empty>>}
    BY <1>1, StoredTyped, KeptIs
<1>4. /\ \E p : o.custom.base = [origin |-> u.base.origin, path |-> p]
      /\ AddressNow(o.custom) = g
    <2>1. PICK w, path : w = u.base.origin /\ path = u.base.path
        OBVIOUS
    <2>2. u.base = [origin |-> w, path |-> path] /\ path \in Seq(STRING)
        BY <1>3, <2>1
    <2>3. u.protocol = "anthropic_messages" \/ path \notin {<<>>, <<Empty>>}
        BY <1>3, <2>1
    <2>4. /\ AddressNow(Migrated(u)) = AddressBefore(u)
          /\ \E p : Migrated(u).base = [origin |-> w, path |-> p]
        BY <1>3, <2>2, <2>3, AddressKept
    <2> QED  BY <1>1, <1>2, <2>1, <2>4 DEF AddressBefore
<1>5. o.custom.base # Null
    BY <1>4 DEF NullIsNoRecord
<1>6. ~Incomplete(o)
    BY <1>2, <1>3, <1>5 DEF Incomplete
<1>7. PICK v : v = Override(o)
    OBVIOUS
<1>8. IsCustom(v)
    BY <1>2, <1>6, <1>7, CustomTarget
<1>9. Resolve(v) # Null
    BY <1>8 DEF Resolve, NullIsNoRecord
<1>10. Target(v) = [url |-> g, main |-> m.main, auxiliary |-> Or(v.auxiliary, m.main)]
    BY <1>2, <1>4, <1>6, <1>7, <1>9, CustomTarget DEF AddressNow
<1>11. Or(v.auxiliary, m.main) = Or(m.auxiliary, m.main)
    BY <1>2, <1>7, CustomOverride DEF Or
<1> QED  BY <1>1, <1>6, <1>7, <1>10, <1>11

-----------------------------------------------------------------------------
(* Storage and the last run *)

LEMMA KeepsRan ==
    ASSUME RanFits, UNCHANGED <<storage, ran>>
    PROVE  RanFits'
<1>1. \A x : /\ Parsed(x)' = Parsed(x)
             /\ Incomplete(x)' <=> Incomplete(x)
             /\ Target(Override(x))' = Target(Override(x))
    OBVIOUS
<1> QED  BY <1>1 DEF RanFits

LEMMA ExecuteRan ==
    ASSUME NullIsNoRecord, StorageFits, PageFits, RanFits,
           NEW o, Fits(o), ~Incomplete(o), Execute(o, Override(o))
    PROVE  RanFits'
<1>1. PICK s, v, w : s = page.session /\ v = Override(o) /\ w = Config(o, v)
    OBVIOUS
<1>2. s \in Session
    BY <1>1 DEF PageFits
<1>3. CASE storage' = Persisted(w) /\ ran' = [ran EXCEPT ![s] = Target(v)]
    <2>1. Fits(w) /\ Target(Override(w)) = Target(v) /\ ~Incomplete(w)
        BY <1>1, ConfigFits, ConfigTarget
    <2>2. w # Null
        BY <2>1 DEF Fits, Loose, NullIsNoRecord
    <2>3. Parsed(w) = w
        BY <2>1, <2>2, ParsedIs DEF Fits
    <2>4. storage'.sessions = [storage.sessions EXCEPT ![s] = w]
        BY <1>1, <1>3 DEF Persisted
    <2>5. \A x \in Session : /\ storage'.sessions[x] = IF x = s THEN w ELSE storage.sessions[x]
                             /\ ran'[x] = IF x = s THEN Target(v) ELSE ran[x]
        BY <1>2, <1>3, <2>4 DEF StorageFits, RanFits
    <2>6. ran' = [x \in Session |-> ran'[x]]
        BY <1>3 DEF RanFits
    <2>7. ASSUME NEW x \in Session, ran'[x] # Null
          PROVE  /\ storage'.sessions[x] # Null
                 /\ ~Incomplete(Parsed(storage'.sessions[x]))
                 /\ Target(Override(Parsed(storage'.sessions[x]))) = ran'[x]
        <3>1. CASE x = s
            <4>1. storage'.sessions[x] = w /\ ran'[x] = Target(v)
                BY <2>5, <3>1
            <4> QED  BY <2>1, <2>2, <2>3, <4>1
        <3>2. CASE x # s
            <4>1. storage'.sessions[x] = storage.sessions[x] /\ ran'[x] = ran[x]
                BY <2>5, <3>2
            <4> QED  BY <2>7, <4>1 DEF RanFits
        <3> QED  BY <3>1, <3>2
    <2> QED  BY <2>6, <2>7 DEF RanFits
<1>4. CASE UNCHANGED storage /\ ran' = [ran EXCEPT ![s] = Null]
    <2>1. ran' = [x \in Session |-> ran'[x]]
        BY <1>4 DEF RanFits
    <2>2. \A x \in Session : ran'[x] # Null => ran'[x] = ran[x]
        BY <1>4 DEF RanFits
    <2>3. \A x \in Session : ran'[x] # Null =>
            /\ storage'.sessions[x] # Null
            /\ ~Incomplete(Parsed(storage'.sessions[x]))
            /\ Target(Override(Parsed(storage'.sessions[x]))) = ran'[x]
        BY <1>4, <2>2 DEF RanFits
    <2> QED  BY <2>1, <2>3 DEF RanFits
<1> QED  BY <1>1, <1>3, <1>4 DEF Execute

LEMMA RanKeeps ==
    ASSUME NullIsNoRecord, ChoiceInv, RanFits, [ChoiceStep]_choiceVars
    PROVE  RanFits'
<1>1. CASE UNCHANGED <<storage, ran>>
    BY <1>1, KeepsRan
<1>2. CASE Send
    <2>1. \/ UNCHANGED <<storage, ran>>
          \/ ~Incomplete(options) /\ Execute(options, Override(options))
        BY <1>2 DEF Send
    <2> QED  BY <1>1, <2>1, ExecuteRan DEF ChoiceInv
<1>3. CASE Confirm
    <2>1. CASE options' = SystemDefault(options) /\ Execute(options', NoOverride)
        <3>1. PICK o : o = SystemDefault(options)
            OBVIOUS
        <3>2. Fits(o) /\ o.choice = options.default
            BY <3>1, SystemFits DEF ChoiceInv
        <3>3. o.choice # Custom
            BY <3>2, Apart DEF ChoiceInv, Fits, Loose
        <3>4. o.models = Untouched /\ o.default = options.default
            <4>1. PICK c, k : c = options.default /\ k = Aside(options)
                OBVIOUS
            <4>2. o = [options EXCEPT !.choice = c, !.kept = k, !.models = Untouched]
                BY <3>1, <4>1, Zenon DEF SystemDefault
            <4>3. o = [choice |-> c, default |-> options.default, models |-> Untouched,
                       kept |-> k, custom |-> options.custom]
                BY <4>2, Records DEF ChoiceInv, Fits, Loose
            <4> QED  BY <4>3
        <3>5. Override(o) = NoOverride
            BY <3>2, <3>3, <3>4, DefaultOverride
        <3>6. ~Incomplete(o)
            BY <3>3 DEF Incomplete
        <3>7. Execute(o, Override(o))
            BY <2>1, <3>1, <3>5
        <3> QED  BY <3>2, <3>6, <3>7, ExecuteRan DEF ChoiceInv
    <2>2. CASE ~Incomplete(options) /\ Execute(options, Override(options))
        BY <2>2, ExecuteRan DEF ChoiceInv
    <2> QED  BY <1>1, <1>3, <2>1, <2>2 DEF Confirm
<1> QED
    <2>1. ChoiceStep => Send \/ Confirm \/ UNCHANGED <<storage, ran>>
        BY DEF ChoiceStep, OpenSettings, CloseSettings, Edit, QuickPick, SetFields, Download,
               Downloaded, DetailArrives, OpenSession
    <2> QED  BY <1>1, <1>2, <1>3, <2>1 DEF choiceVars

LEMMA RanStarts ==
    ASSUME NullIsNoRecord, StoredKept, ChoiceInit
    PROVE  RanFits
<1>1. PICK s \in Session :
        /\ storage = [latest |-> Stored,
                      sessions |-> [x \in Session |-> IF x = s THEN Stored ELSE Null]]
        /\ ran = [x \in Session |->
                    IF x = s /\ Stored # Null
                    THEN [url |-> ResolveAddress(Stored.custom.base, Stored.custom.protocol,
                                                 "sdk_native").generation,
                          main |-> Stored.models.main,
                          auxiliary |-> Or(Stored.models.auxiliary, Stored.models.main)]
                    ELSE Null]
    BY Zenon DEF ChoiceInit
<1>2. PICK t : t = [url |-> ResolveAddress(Stored.custom.base, Stored.custom.protocol,
                                           "sdk_native").generation,
                    main |-> Stored.models.main,
                    auxiliary |-> Or(Stored.models.auxiliary, Stored.models.main)]
    OBVIOUS
<1>3. \A x \in Session : /\ ran[x] = IF x = s /\ Stored # Null THEN t ELSE Null
                         /\ storage.sessions[x] = IF x = s THEN Stored ELSE Null
    BY <1>1, <1>2
<1>4. ran = [x \in Session |-> ran[x]]
    BY <1>1
<1>5. Stored # Null => /\ ~Incomplete(Parsed(Stored))
                       /\ Target(Override(Parsed(Stored))) = t
    BY <1>2, StoredRuns
<1>6. ASSUME NEW x \in Session, ran[x] # Null
      PROVE  /\ storage.sessions[x] # Null
             /\ ~Incomplete(Parsed(storage.sessions[x]))
             /\ Target(Override(Parsed(storage.sessions[x]))) = ran[x]
    <2>1. x = s /\ Stored # Null /\ ran[x] = t /\ storage.sessions[x] = Stored
        BY <1>3, <1>6
    <2> QED  BY <1>5, <2>1
<1> QED  BY <1>4, <1>6 DEF RanFits

LEMMA ArrivesAsItRan ==
    ASSUME NullIsNoRecord, ChoiceInv, RanFits, DetailArrives, ~settings.open
    PROVE  /\ ran[page.session] # Null =>
                /\ ~Incomplete(options')
                /\ Target(Override(options')) = ran[page.session]
           /\ page'.exists /\ storage.sessions[page.session] = Null =>
                Override(options') = NoOverride
<1>1. PICK exists, s, x : /\ exists = (page.session \in known) /\ s = page.session
                          /\ x = storage.sessions[s]
    OBVIOUS
<1>2. s \in Session /\ options.default \in {Null, DefaultProfile}
    BY <1>1 DEF ChoiceInv, PageFits, Fits, Loose
<1>3. PICK config, d : config = Restored(s, exists) /\ d = options.default
    OBVIOUS
<1>4. options' = [Or(config, Fresh) EXCEPT !.default = d]
    BY <1>1, <1>3 DEF DetailArrives, Becomes, Applied
<1>5. ASSUME ran[s] # Null
      PROVE  ~Incomplete(options') /\ Target(Override(options')) = ran[s]
    <2>1. PICK o : o = Parsed(x)
        OBVIOUS
    <2>2. x # Null /\ ~Incomplete(o) /\ Target(Override(o)) = ran[s]
        BY <1>1, <1>2, <1>5, <2>1 DEF RanFits
    <2>3. Fits(o)
        BY <1>1, <1>2, <2>1, <2>2 DEF ChoiceInv, StorageFits
    <2>4. o # Null
        BY <2>3 DEF Fits, Loose, NullIsNoRecord
    <2>5. config = o
        BY <1>1, <1>3, <2>1, <2>4 DEF Restored, Or
    <2>6. options' = [o EXCEPT !.default = d]
        BY <1>4, <2>4, <2>5 DEF Or
    <2> QED  BY <1>2, <1>3, <2>2, <2>3, <2>6, DefaultIsNoMatter
<1>6. ASSUME page'.exists, x = Null
      PROVE  Override(options') = NoOverride
    <2>1. exists
        BY <1>1, <1>6 DEF DetailArrives, ChoiceInv, PageFits
    <2>2. config = Null
        BY <1>1, <1>3, <1>6, <2>1, ParsedIs DEF Restored, Or
    <2>3. PICK f, u : f = Fresh /\ u = Untouched
        OBVIOUS
    <2>4. f = [choice |-> Null, default |-> Null, models |-> u, kept |-> u, custom |-> Blank]
        BY <2>3, Zenon DEF Fresh
    <2>5. options' = [f EXCEPT !.default = d]
        BY <1>4, <2>2, <2>3 DEF Or
    <2>6. options'.choice = Null /\ options'.models = Untouched
        BY <2>3, <2>4, <2>5
    <2> QED  BY <2>6, Apart, DefaultOverride
<1> QED  BY <1>1, <1>5, <1>6

\* A session opened again runs where its last message ran, whatever has been
\* chosen for other sessions meanwhile, and one that the server knows takes
\* nothing over from another.
THEOREM SessionsKeepModels ==
    ASSUME NullIsNoRecord, StoredKept
    PROVE  ChoiceSpec => SessionKeepsModel
<1>1. ChoiceInit => RanFits
    BY RanStarts
<1>2. ChoiceInv /\ RanFits /\ [ChoiceStep]_choiceVars => RanFits'
    BY RanKeeps
<1>3. ChoiceInv /\ RanFits /\ [ChoiceStep]_choiceVars =>
        [DetailArrives /\ ~settings.open =>
            /\ ran[page.session] # Null =>
                ~Incomplete(options') /\ Target(Override(options')) = ran[page.session]
            /\ page'.exists /\ storage.sessions[page.session] = Null =>
                Override(options') = NoOverride]_choiceVars
    BY ArrivesAsItRan
<1> QED  BY <1>1, <1>2, <1>3, ChoiceInvariant, PTL DEF ChoiceSpec, SessionKeepsModel

-----------------------------------------------------------------------------
(* SessionClient: types *)

\* What a request carries or brings back: a title, or what came of it.
Value == Title \cup {Absent, Untitled, Fallback, Generated, Present, Error, Nothing, "accepted", "started"}

Kind == {"detail", "refresh", "list", "run", "title", "rename", "delete"}

CallRecord ==
    [kind : Kind, session : Chat \cup {Nothing}, at : {"sent", "answered"}, value : Value,
     version : Nat, was : BOOLEAN, heard : BOOLEAN, alone : BOOLEAN, list : [Chat -> Value]]

ServerRecord == [at : {"none", "live", "deleted"}, title : Value \ {Absent}, made : BOOLEAN]

View == [session : Chat \cup {Nothing}, loaded : BOOLEAN, eligible : BOOLEAN,
         attempted : BOOLEAN, streaming : BOOLEAN]

ClientTypeOK ==
    /\ server \in [Chat -> ServerRecord]
    /\ rows \in [Chat -> Value]
    /\ loaded \in BOOLEAN
    /\ versions \in [Chat -> Nat]
    /\ pending \subseteq Chat /\ renamed \subseteq Chat
    /\ view \in View
    /\ calls \subseteq CallRecord
    /\ manual \in [Chat -> Value]
    /\ asked \in [Chat -> Nat]

-----------------------------------------------------------------------------
(* SessionClient: the inductive invariant *)

\* Only the list is of no session, only the page stops listening, and what is
\* answered is still listened to.
CallFits(c) ==
    /\ c.kind # "list" => c.session \in Chat
    /\ c.kind \notin {"run", "title", "detail"} => c.heard
    /\ c.at = "answered" => c.heard

\* The list is loaded once.
ListFits(c) == c.kind = "list" => ~loaded /\ \A d \in calls : d.kind = "list" => d = c

\* No rename under way gave the protection that a confirmed one has, and one that
\* nothing disturbed is the only one of its session, on a protected row.
RenameFits(c) ==
    c.kind = "rename" =>
        /\ c.value \in Title \cup {Error}
        /\ manual[c.session] # Nothing => c.was
        /\ c.alone =>
              /\ rows[c.session] # Absent
              /\ c.session \in renamed
              /\ \A d \in calls : d.kind = "rename" /\ d.session = c.session => d = c

\* A confirmed rename is in the row and protected.
ManualFits(s) == manual[s] # Nothing => manual[s] \in Title /\ s \in renamed /\ rows[s] = manual[s]

\* The page listens to its own detail until it is loaded, and then to one run.
DetailFits(c) ==
    c.kind = "detail" /\ c.heard =>
        /\ c.session = view.session /\ ~view.loaded
        /\ \A d \in calls : d.kind = "detail" /\ d.heard => d = c

RunFits(c) ==
    c.kind = "run" /\ c.heard =>
        /\ c.session = view.session /\ view.loaded /\ view.streaming
        /\ c.at = "answered" /\ c.value # Error => server[c.session].at # "none"
        /\ \A d \in calls : d.kind = "run" /\ d.heard => d = c

\* A page of s that has not asked itself will not ask: it knows the session as it
\* is, or the session is gone and no run of it is accepted any more.
Silent(s) ==
    view.session = s /\ ~view.attempted =>
        /\ view.eligible =>
              /\ server[s].at = "deleted"
              /\ \A c \in calls : c.kind = "run" /\ c.at = "answered" => c.value # "accepted"
        /\ \A c \in calls : c.kind = "detail" /\ c.at = "answered" /\ c.value = Absent =>
              server[s].at = "deleted"

AskedFits(s) == asked[s] = 0 \/ (asked[s] = 1 /\ server[s].at # "none" /\ Silent(s))

\* A page may ask when it found no session: if there is one now, or a run of the
\* page was accepted, a run of this tab made it.
MadeFits(s) ==
    /\ view.session = s /\ view.eligible =>
          /\ server[s].at = "live" => server[s].made
          /\ \A c \in calls : c.kind = "run" /\ c.at = "answered" /\ c.value = "accepted" =>
                server[s].made
    /\ \A c \in calls : c.kind = "detail" /\ c.session = s /\ c.at = "answered" /\ c.value = Absent =>
          (server[s].at = "live" => server[s].made)
    /\ asked[s] > 0 => server[s].made

CallsFit == \A c \in calls : /\ CallFits(c)
                             /\ ListFits(c)
                             /\ RenameFits(c)
                             /\ DetailFits(c)
                             /\ RunFits(c)

ViewFits == view.loaded => view.session \in Chat

CInv ==
    /\ ClientTypeOK
    /\ CallsFit
    /\ ViewFits
    /\ \A s \in Chat : ManualFits(s) /\ AskedFits(s) /\ MadeFits(s)

-----------------------------------------------------------------------------
(* Requests *)

\* A request as it is sent.
Sent(n, k, s, v) ==
    /\ n \in CallRecord
    /\ n.kind = k /\ n.session = s /\ n.at = "sent" /\ n.value = v
    /\ n.heard = TRUE

LEMMA Requested ==
    ASSUME NEW k \in Kind, NEW s \in Chat \cup {Nothing}, NEW v \in Value
    PROVE  Sent(Request(k, s, v), k, s, v)
  BY DEF Sent, Request, CallRecord, Value

LEMMA Marking ==
    ASSUME NEW k \in {"rename", "delete"}, NEW s \in Chat, NEW v \in Value,
           NEW b \in BOOLEAN, NEW a \in BOOLEAN
    PROVE  LET n == [Request(k, s, v) EXCEPT !.was = b, !.alone = a]
           IN Sent(n, k, s, v) /\ n.was = b /\ n.alone = a
  BY DEF Sent, Request, CallRecord, Value, Kind

\* What a refresh adds.
LEMMA Reading ==
    ASSUME ClientTypeOK, NEW s \in Chat, NEW n \in Reads(s)
    PROVE  Sent(n, "refresh", s, Nothing)
<1>1. n = [Request("refresh", s, Nothing) EXCEPT !.version = versions[s]]
  BY DEF Reads, Read
<1>2. versions[s] \in Nat
  BY DEF ClientTypeOK
<1> QED BY <1>1, <1>2 DEF Sent, Request, CallRecord, Value, Kind

\* The answer n to the request c carries v.
Answers(n, c, v) ==
    /\ n \in CallRecord
    /\ n.kind = c.kind /\ n.session = c.session /\ n.at = "answered" /\ n.value = v
    /\ n.heard = c.heard /\ n.was = c.was /\ n.alone = c.alone

LEMMA Heir ==
    ASSUME NEW c \in CallRecord, NEW v \in Value
    PROVE  Answers([c EXCEPT !.at = "answered", !.value = v], c, v)
  BY DEF Answers, CallRecord

LEMMA ListHeir ==
    ASSUME NEW c \in CallRecord, NEW l \in [Chat -> Value]
    PROVE  Answers([c EXCEPT !.at = "answered", !.list = l], c, c.value)
  BY DEF Answers, CallRecord

LEMMA StartedHeir ==
    ASSUME NEW c \in CallRecord, c.at = "answered"
    PROVE  Answers([c EXCEPT !.value = "started"], c, "started")
  BY DEF Answers, CallRecord, Value

LEMMA Muted ==
    ASSUME NEW c \in CallRecord
    PROVE  LET n == [c EXCEPT !.heard = FALSE]
           IN /\ n \in CallRecord
              /\ n.kind = c.kind /\ n.session = c.session /\ n.at = c.at /\ n.value = c.value
              /\ n.heard = FALSE
  BY DEF CallRecord

\* The page's requests that it no longer listens to.
LEMMA UnheardCalls ==
    ASSUME CInv, NEW kinds \in SUBSET {"run", "title", "detail"}, NEW d \in Unheard(kinds)
    PROVE  /\ d \in CallRecord
           /\ \/ d \in calls /\ (d.kind \notin kinds \/ d.heard = FALSE)
              \/ d.kind \in kinds /\ d.heard = FALSE /\ d.at = "sent" /\ d.session \in Chat
<1>1. CASE d \in calls /\ (d.kind \notin kinds \/ ~d.heard)
  BY <1>1 DEF CInv, ClientTypeOK, CallRecord
<1>2. ASSUME NEW c \in calls, c.kind \in kinds, c.at = "sent", d = [c EXCEPT !.heard = FALSE]
      PROVE  /\ d \in CallRecord
             /\ d.kind \in kinds /\ d.heard = FALSE /\ d.at = "sent" /\ d.session \in Chat
  <2>1. c \in CallRecord /\ c.session \in Chat
    BY <1>2 DEF CInv, ClientTypeOK, CallsFit, CallFits
  <2> QED BY <1>2, <2>1, Muted
<1> QED BY <1>1, <1>2 DEF Unheard

\* A disturbed rename is the request it was, but not alone.
LEMMA Disturbing ==
    ASSUME NEW some \in SUBSET CallRecord, NEW sessions, NEW d \in Disturbed(some, sessions)
    PROVE  \/ d \in some /\ ~(d.kind = "rename" /\ d.session \in sessions)
           \/ /\ d \in CallRecord /\ d.kind = "rename" /\ d.session \in sessions /\ d.alone = FALSE
              /\ \E c \in some : /\ c.kind = "rename" /\ c.session = d.session
                                 /\ c.value = d.value /\ c.heard = d.heard /\ c.at = d.at /\ c.was = d.was
<1>1. PICK c \in some : d = IF c.kind = "rename" /\ c.session \in sessions
                            THEN [c EXCEPT !.alone = FALSE] ELSE c
  BY DEF Disturbed
<1>2. CASE c.kind = "rename" /\ c.session \in sessions
  <2>1. /\ d \in CallRecord /\ d.kind = c.kind /\ d.session = c.session /\ d.alone = FALSE
        /\ d.value = c.value /\ d.heard = c.heard /\ d.at = c.at /\ d.was = c.was
    BY <1>1, <1>2 DEF CallRecord
  <2> QED BY <1>2, <2>1
<1>3. CASE ~(c.kind = "rename" /\ c.session \in sessions)
  BY <1>1, <1>3
<1> QED BY <1>2, <1>3

-----------------------------------------------------------------------------
(* What a step leaves alone *)

LEMMA KeepLists ==
    ASSUME CInv, loaded' = loaded, \A d \in calls' : d.kind = "list" => d \in calls
    PROVE  \A d \in calls' : ListFits(d)'
  BY DEF CInv, CallsFit, ListFits

LEMMA KeepRenames ==
    ASSUME CInv, manual' = manual, renamed \subseteq renamed',
           \A s \in renamed : rows'[s] = rows[s],
           \A d \in calls' : d.kind = "rename" => d \in calls
    PROVE  \A d \in calls' : RenameFits(d)'
  BY DEF CInv, CallsFit, RenameFits

LEMMA KeepDetails ==
    ASSUME CInv, view'.session = view.session, view'.loaded = view.loaded,
           \A d \in calls' : d.kind = "detail" /\ d.heard => d \in calls
    PROVE  \A d \in calls' : DetailFits(d)'
  BY DEF CInv, CallsFit, DetailFits

LEMMA KeepRuns ==
    ASSUME CInv, view'.session = view.session, view'.loaded = view.loaded,
           view'.streaming = view.streaming,
           \A s \in Chat : server[s].at # "none" => server'[s].at # "none",
           \A d \in calls' : d.kind = "run" /\ d.heard => d \in calls
    PROVE  \A d \in calls' : RunFits(d)'
  BY DEF CInv, CallsFit, RunFits, CallFits

LEMMA KeepManual ==
    ASSUME CInv, manual' = manual, renamed \subseteq renamed',
           \A s \in renamed : rows'[s] = rows[s]
    PROVE  \A s \in Chat : ManualFits(s)'
  BY DEF CInv, ManualFits

LEMMA KeepAsked ==
    ASSUME CInv, asked' = asked,
           view'.session = view.session, view'.attempted = view.attempted,
           view'.eligible = view.eligible,
           \A s \in Chat : /\ server[s].at # "none" => server'[s].at # "none"
                           /\ server[s].at = "deleted" => server'[s].at = "deleted",
           \A d \in calls' : d.at = "answered" /\ d.kind = "run" /\ d.value = "accepted" => d \in calls,
           \A d \in calls' : d.at = "answered" /\ d.kind = "detail" => d \in calls
    PROVE  \A s \in Chat : AskedFits(s)'
  BY DEF CInv, AskedFits, Silent

LEMMA KeepMade ==
    ASSUME CInv, asked' = asked, server' = server,
           view'.eligible => view'.session = view.session /\ view.eligible,
           \A d \in calls' : d.at = "answered" /\ d.kind = "run" /\ d.value = "accepted" => d \in calls,
           \A d \in calls' : d.at = "answered" /\ d.kind = "detail" => d \in calls
    PROVE  \A s \in Chat : MadeFits(s)'
  BY DEF CInv, MadeFits

LEMMA Whole ==
    ASSUME ClientTypeOK', ViewFits', \A s \in Chat : ManualFits(s)', \A s \in Chat : AskedFits(s)',
           \A s \in Chat : MadeFits(s)',
           \A d \in calls' : CallFits(d)', \A d \in calls' : ListFits(d)',
           \A d \in calls' : RenameFits(d)', \A d \in calls' : DetailFits(d)',
           \A d \in calls' : RunFits(d)'
    PROVE  CInv'
  BY DEF CInv, CallsFit

-----------------------------------------------------------------------------
(* The server *)

LEMMA Known ==
    ASSUME CInv, NEW c \in calls
    PROVE  /\ c \in CallRecord
           /\ CallFits(c) /\ ListFits(c) /\ RenameFits(c) /\ DetailFits(c) /\ RunFits(c)
  BY DEF CInv, ClientTypeOK, CallsFit

\* n answers c, with the value v, and replaces it.
Replaced(c, n, v) ==
    /\ Answers(n, c, v)
    /\ \A d \in calls' : (d \in calls /\ d # c) \/ (d = n /\ c.heard)

LEMMA AnsweredReplaces ==
    ASSUME CInv, NEW c \in calls, NEW v \in Value, Answered(c, v)
    PROVE  \E n : Replaced(c, n, v)
<1>1. Answers([c EXCEPT !.at = "answered", !.value = v], c, v)
  BY Known, Heir
<1> QED BY <1>1 DEF Answered, Replaced

\* What the server does to a session and what it says of it.
Handled(c, v) ==
    LET s == c.session IN
    /\ c.kind = "rename" => v \in Title \cup {Error}
    /\ c.kind = "run" /\ v # Error => server[s].at # "deleted" /\ server'[s].at = "live"
    /\ c.kind = "detail" /\ v = Absent => server[s].at # "live"

ServerMoves ==
    /\ server' \in [Chat -> ServerRecord]
    /\ \A s \in Chat : /\ server[s].at # "none" => server'[s].at # "none"
                       /\ server[s].at = "deleted" => server'[s].at = "deleted"
                       /\ server[s].made => server'[s].made
                       /\ server'[s].at = "live" => server[s].at = "live" \/ server'[s].made

LEMMA TitlesKnown ==
    ASSUME CInv, NEW s \in Chat
    PROVE  /\ server[s] \in ServerRecord
           /\ TitleOf(s) \in Value
  BY DEF CInv, ClientTypeOK, TitleOf, Live, Value, ServerRecord

LEMMA ServerStays == ASSUME CInv, UNCHANGED server PROVE ServerMoves
  BY DEF CInv, ClientTypeOK, ServerMoves

LEMMA ServeShape ==
    ASSUME CInv, NEW c \in calls, Serve(c)
    PROVE  ServerMoves /\ \E v, n : v \in Value /\ Replaced(c, n, v) /\ Handled(c, v)
<1>1. c \in CallRecord /\ CallFits(c) /\ RenameFits(c)
  BY Known
<1>2. Error \in Value /\ Absent \in Value /\ "accepted" \in Value /\ Generated \in Value
      /\ Present \in Value /\ Generated # Absent /\ Error # Absent /\ Present # Absent
  BY DEF Value, Error, Absent, Generated, Present
<1>3. CASE Answered(c, Error) /\ UNCHANGED server
  BY <1>1, <1>2, <1>3, AnsweredReplaces, ServerStays DEF Handled, Error, Absent
<1>4. CASE /\ c.kind = "detail" /\ Answered(c, IF Live(c.session) THEN Present ELSE Absent)
           /\ UNCHANGED server
  BY <1>2, <1>4, AnsweredReplaces, ServerStays DEF Handled, Live
<1>10. CASE /\ c.kind = "refresh" /\ UNCHANGED server
            /\ Answered(c, IF Live(c.session) THEN server[c.session].title ELSE Error)
  <2>1. c.session \in Chat
    BY <1>1, <1>10 DEF CallFits
  <2>2. (IF Live(c.session) THEN server[c.session].title ELSE Error) \in Value
    BY <1>2, <2>1, TitlesKnown DEF ServerRecord
  <2> QED BY <1>10, <2>2, AnsweredReplaces, ServerStays DEF Handled
<1>5. CASE /\ c.kind = "list" /\ UNCHANGED server
           /\ calls' = (calls \ {c}) \cup
                {[c EXCEPT !.at = "answered", !.list = [x \in Chat |-> TitleOf(x)]]}
  <2>1. [x \in Chat |-> TitleOf(x)] \in [Chat -> Value]
    BY TitlesKnown
  <2>2. Answers([c EXCEPT !.at = "answered", !.list = [x \in Chat |-> TitleOf(x)]], c, c.value)
    BY <1>1, <2>1, ListHeir
  <2>3. c.heard /\ c.value \in Value
    BY <1>1, <1>5 DEF CallFits, CallRecord
  <2> QED BY <1>5, <2>2, <2>3, ServerStays DEF Handled, Replaced
<1>6. CASE /\ c.kind = "run" /\ server[c.session].at # "deleted"
           /\ server' = [server EXCEPT ![c.session] = IF @.at = "live" THEN @
                                          ELSE [@ EXCEPT !.at = "live", !.made = TRUE]]
           /\ Answered(c, "accepted")
  <2>1. c.session \in Chat /\ server \in [Chat -> ServerRecord]
    BY <1>1, <1>6 DEF CallFits, CInv, ClientTypeOK
  <2>2. /\ server' \in [Chat -> ServerRecord]
        /\ \A s \in Chat : s # c.session => server'[s] = server[s]
        /\ server[c.session].at = "live" => server'[c.session] = server[c.session]
        /\ server'[c.session].at = "live"
        /\ server[c.session].at # "live" => server'[c.session].made
    BY <1>6, <2>1 DEF ServerRecord
  <2>3. /\ ServerMoves /\ server'[c.session].at = "live"
    BY <1>6, <2>1, <2>2 DEF ServerMoves
  <2> QED BY <1>2, <1>6, <2>3, AnsweredReplaces DEF Handled
<1>7. CASE /\ c.kind = "title"
           /\ server' \in {server, [server EXCEPT ![c.session].title =
                                        IF @ = Fallback THEN Generated ELSE @]}
           /\ \E value \in {server'[c.session].title, Error} : Answered(c, value)
  <2>1. c.session \in Chat /\ server \in [Chat -> ServerRecord]
    BY <1>1, <1>7 DEF CallFits, CInv, ClientTypeOK
  <2>2. /\ server' \in [Chat -> ServerRecord]
        /\ \A s \in Chat : server'[s].at = server[s].at /\ server'[s].made = server[s].made
    <3>1. CASE server' = server
      BY <2>1, <3>1
    <3>2. CASE server' = [server EXCEPT ![c.session].title = IF @ = Fallback THEN Generated ELSE @]
      BY <1>2, <2>1, <3>2 DEF ServerRecord
    <3> QED BY <1>7, <3>1, <3>2
  <2>3. ServerMoves /\ server'[c.session].title \in Value
    BY <2>1, <2>2 DEF ServerMoves, ServerRecord
  <2> QED BY <1>2, <1>7, <2>3, AnsweredReplaces DEF Handled
<1>8. CASE /\ c.kind = "rename"
           /\ server' = [server EXCEPT ![c.session].title = c.value]
           /\ \E value \in {c.value, Error} : Answered(c, value)
  <2>1. c.session \in Chat /\ c.value \in Title \cup {Error} /\ c.value \in Value \ {Absent}
    BY <1>1, <1>2, <1>8, MarksAreNoTitles DEF CallFits, RenameFits, Value
  <2>2. ServerMoves
    BY <1>8, <2>1 DEF CInv, ClientTypeOK, ServerMoves, ServerRecord
  <2> QED BY <1>2, <1>8, <2>1, <2>2, AnsweredReplaces DEF Handled
<1>9. CASE /\ c.kind = "delete"
           /\ server' = [server EXCEPT ![c.session].at = "deleted"]
           /\ \E value \in {Absent, Error} : Answered(c, value)
  <2>1. c.session \in Chat
    BY <1>1, <1>9 DEF CallFits
  <2>2. ServerMoves
    BY <1>9, <2>1 DEF CInv, ClientTypeOK, ServerMoves, ServerRecord
  <2> QED BY <1>2, <1>9, <2>2, AnsweredReplaces DEF Handled
<1> QED BY <1>3, <1>4, <1>5, <1>6, <1>7, <1>8, <1>9, <1>10 DEF Serve, Handle

LEMMA ServeStep == ASSUME CInv, NEW c \in calls, Serve(c) PROVE CInv'
<1>1. ServerMoves
  BY ServeShape
<1>2. PICK v, n : v \in Value /\ Replaced(c, n, v) /\ Handled(c, v)
  BY ServeShape
<1>3. /\ n \in CallRecord
      /\ n.kind = c.kind /\ n.session = c.session /\ n.at = "answered" /\ n.value = v
      /\ n.heard = c.heard /\ n.was = c.was /\ n.alone = c.alone
  BY <1>2 DEF Replaced, Answers
<1>4. \A d \in calls' : (d \in calls /\ d # c) \/ (d = n /\ c.heard)
  BY <1>2 DEF Replaced
<1>5. UNCHANGED <<rows, loaded, versions, pending, renamed, view, commands, manual, asked>>
  BY DEF Serve, listVars, countVars
<1>6. c \in CallRecord /\ CallFits(c) /\ ListFits(c) /\ RenameFits(c) /\ DetailFits(c) /\ RunFits(c)
  BY Known
<1>7. ClientTypeOK' /\ ViewFits'
  BY <1>1, <1>3, <1>4, <1>5 DEF CInv, ClientTypeOK, ViewFits, ServerMoves
<1>8. \A d \in calls' : CallFits(d)'
  BY <1>3, <1>4, <1>6 DEF CInv, CallsFit, CallFits
<1>9. \A d \in calls' : ListFits(d)'
  BY <1>3, <1>4, <1>5, <1>6 DEF CInv, CallsFit, ListFits
<1>10. \A d \in calls' : RenameFits(d)'
  BY <1>2, <1>3, <1>4, <1>5, <1>6 DEF CInv, CallsFit, RenameFits, Handled
<1>11. \A d \in calls' : DetailFits(d)'
  BY <1>3, <1>4, <1>5, <1>6 DEF CInv, CallsFit, DetailFits
<1>12. \A d \in calls' : RunFits(d)'
  BY <1>1, <1>2, <1>3, <1>4, <1>5, <1>6 DEF CInv, CallsFit, CallFits, RunFits, Handled, ServerMoves
<1>13. \A s \in Chat : ManualFits(s)'
  BY <1>5, KeepManual
<1>14. ASSUME NEW s \in Chat PROVE AskedFits(s)'
  <2>1. AskedFits(s)
    BY DEF CInv
  <2>2. CASE asked[s] = 0
    BY <1>5, <2>2 DEF AskedFits
  <2>3. CASE asked[s] = 1 /\ server[s].at # "none" /\ Silent(s)
    <3> SUFFICES ASSUME view.session = s, ~view.attempted
                 PROVE  /\ server'[s].at # "none"
                        /\ view.eligible =>
                              /\ server'[s].at = "deleted"
                              /\ \A d \in calls' : d.kind = "run" /\ d.at = "answered" =>
                                                      d.value # "accepted"
                        /\ \A d \in calls' : d.kind = "detail" /\ d.at = "answered"
                                             /\ d.value = Absent => server'[s].at = "deleted"
      BY <1>1, <1>5, <2>3 DEF AskedFits, Silent, ServerMoves
    <3>1. server'[s].at # "none" /\ (server[s].at = "deleted" => server'[s].at = "deleted")
      BY <1>1, <2>3 DEF ServerMoves
    <3>2. c.heard /\ c.kind \in {"run", "detail"} => c.session = s
      BY <1>6 DEF DetailFits, RunFits
    <3>3. server[s].at \in {"none", "live", "deleted"}
      BY TitlesKnown DEF ServerRecord
    <3>4. "accepted" # Error
      BY DEF Error
    <3>5. view.eligible => /\ server[s].at = "deleted"
                           /\ \A d \in calls : d.kind = "run" /\ d.at = "answered" =>
                                                   d.value # "accepted"
      BY <2>3 DEF Silent
    <3>6. \A d \in calls : d.kind = "detail" /\ d.at = "answered" /\ d.value = Absent =>
                              server[s].at = "deleted"
      BY <2>3 DEF Silent
    <3>7. n.kind = "run" /\ c.heard /\ n.value = "accepted" => server[s].at # "deleted"
      BY <1>2, <1>3, <3>2, <3>4 DEF Handled
    <3>8. n.kind = "detail" /\ c.heard /\ n.value = Absent => server[s].at = "deleted"
      BY <1>2, <1>3, <2>3, <3>2, <3>3 DEF Handled
    <3> QED BY <1>4, <3>1, <3>5, <3>6, <3>7, <3>8
  <2> QED BY <2>1, <2>2, <2>3 DEF AskedFits
<1>15. ASSUME NEW s \in Chat PROVE MadeFits(s)'
  <2>1. /\ server[s].made => server'[s].made
        /\ server'[s].at = "live" => server[s].at = "live" \/ server'[s].made
    BY <1>1 DEF ServerMoves
  <2>2. MadeFits(s)
    BY DEF CInv
  <2>3. view.session = s /\ view.eligible => (server'[s].at = "live" => server'[s].made)
    BY <2>1, <2>2 DEF MadeFits
  <2>4. asked[s] > 0 => server'[s].made
    BY <2>1, <2>2 DEF MadeFits
  <2>5. ASSUME view.session = s, view.eligible,
               NEW d \in calls', d.kind = "run", d.at = "answered", d.value = "accepted"
        PROVE  server'[s].made
    <3>1. CASE d \in calls
      BY <2>1, <2>2, <2>5, <3>1 DEF MadeFits
    <3>2. CASE d = n /\ c.heard
      <4>1. c.session = s /\ "accepted" # Error
        BY <1>3, <1>6, <2>5, <3>2 DEF RunFits, Error
      <4>2. server'[s].at = "live"
        BY <1>2, <1>3, <2>5, <3>2, <4>1 DEF Handled
      <4> QED BY <2>3, <2>5, <4>2
    <3> QED BY <1>4, <3>1, <3>2
  <2>6. ASSUME NEW d \in calls', d.kind = "detail", d.session = s, d.at = "answered", d.value = Absent,
               server'[s].at = "live"
        PROVE  server'[s].made
    <3>1. CASE d \in calls
      BY <2>1, <2>2, <2>6, <3>1 DEF MadeFits
    <3>2. CASE d = n
      <4>1. server[s].at # "live"
        BY <1>2, <1>3, <2>6, <3>2 DEF Handled
      <4> QED BY <2>1, <2>6, <4>1
    <3> QED BY <1>4, <3>1, <3>2
  <2> QED BY <1>5, <2>3, <2>4, <2>5, <2>6 DEF MadeFits
<1> QED BY <1>7, <1>8, <1>9, <1>10, <1>11, <1>12, <1>13, <1>14, <1>15, Whole

-----------------------------------------------------------------------------
(* The page *)

LEMMA LandingType ==
    /\ Landing \in View
    /\ Landing.session = Nothing /\ Landing.loaded = FALSE /\ Landing.eligible = FALSE
    /\ Landing.attempted = FALSE /\ Landing.streaming = FALSE
    /\ \A s \in Chat : LET v == [Landing EXCEPT !.session = s]
                       IN /\ v \in View /\ v.session = s /\ v.loaded = FALSE
                          /\ v.eligible = FALSE /\ v.attempted = FALSE /\ v.streaming = FALSE
  BY DEF Landing, View

\* A page that is left, perhaps for another one, listens to at most a new detail.
LEMMA FreshPage ==
    ASSUME CInv, view' \in View, view'.loaded = FALSE, view'.eligible = FALSE,
           NEW n, NEW s \in Chat, Sent(n, "detail", s, Nothing),
           \A d \in calls' : d \in Unheard({"run", "title", "detail"}) \/ (d = n /\ view'.session = s),
           UNCHANGED <<server, listVars, manual, asked>>
    PROVE  CInv'
<1>1. /\ n \in CallRecord /\ n.kind = "detail" /\ n.session = s /\ n.at = "sent" /\ n.heard = TRUE
  BY DEF Sent
<1>2. UNCHANGED <<server, rows, loaded, versions, pending, renamed, manual, asked>>
  BY DEF listVars
<1>3. \A d \in calls' :
         \/ d = n /\ view'.session = s
         \/ /\ d \in CallRecord
            /\ \/ d \in calls /\ (d.kind \notin {"run", "title", "detail"} \/ d.heard = FALSE)
               \/ /\ d.kind \in {"run", "title", "detail"}
                  /\ d.heard = FALSE /\ d.at = "sent" /\ d.session \in Chat
  BY UnheardCalls
<1>4. ClientTypeOK' /\ ViewFits'
  BY <1>1, <1>2, <1>3 DEF CInv, ClientTypeOK, ViewFits
<1>5. \A d \in calls' : CallFits(d)'
  BY <1>1, <1>3 DEF CInv, CallsFit, CallFits
<1>6. \A d \in calls' : ListFits(d)'
  BY <1>1, <1>2, <1>3, KeepLists
<1>7. \A d \in calls' : RenameFits(d)'
  BY <1>1, <1>2, <1>3, KeepRenames
<1>8. \A d \in calls' : DetailFits(d)'
  BY <1>1, <1>3 DEF DetailFits
<1>9. \A d \in calls' : RunFits(d)'
  BY <1>1, <1>3 DEF RunFits
<1>10. \A x \in Chat : ManualFits(x)'
  BY <1>2, KeepManual
<1>11. ASSUME NEW x \in Chat PROVE AskedFits(x)'
  <2>1. \A d \in calls' : d.kind = "detail" => d.at # "answered"
    BY <1>1, <1>3, <1>5 DEF CallFits, CInv, CallsFit
  <2>2. AskedFits(x)
    BY DEF CInv
  <2> QED BY <1>2, <2>1, <2>2 DEF AskedFits, Silent
<1>12. \A d \in calls' : d.at = "answered" => d.kind \notin {"run", "detail"}
  BY <1>1, <1>3, <1>5 DEF CallFits, CInv, CallsFit
<1>13. \A x \in Chat : MadeFits(x)'
  BY <1>2, <1>12, KeepMade
<1> QED BY <1>4, <1>5, <1>6, <1>7, <1>8, <1>9, <1>10, <1>11, <1>13, Whole

LEMMA OpenPageStep == ASSUME CInv, NEW s \in Chat, OpenPage(s) PROVE CInv'
<1>1. PICK n : n = Request("detail", s, Nothing) /\ Sent(n, "detail", s, Nothing)
  BY Requested DEF Kind, Value
<1>2. view' \in View /\ view'.loaded = FALSE /\ view'.eligible = FALSE /\ view'.session = s
  BY LandingType DEF OpenPage
<1> QED BY <1>1, <1>2, FreshPage DEF OpenPage, countVars

LEMMA LeaveStep == ASSUME CInv, Leave PROVE CInv'
<1>1. view' \in View /\ view'.loaded = FALSE /\ view'.eligible = FALSE
  BY LandingType DEF Leave
<1>2. CASE Chat # {}
  <2>1. PICK s \in Chat : TRUE
    BY <1>2
  <2>2. PICK n : Sent(n, "detail", s, Nothing)
    BY Requested DEF Kind, Value
  <2> QED BY <1>1, <2>1, <2>2, FreshPage DEF Leave, countVars
<1>3. CASE Chat = {}
  <2>1. \A d \in calls' :
           /\ d \in CallRecord
           /\ \/ d \in calls /\ (d.kind \notin {"run", "title", "detail"} \/ d.heard = FALSE)
              \/ d.kind \in {"run", "title", "detail"} /\ d.session \in Chat
    BY UnheardCalls DEF Leave
  <2>2. calls' \subseteq calls /\ \A d \in calls' : d.kind = "list"
    BY <1>3, <2>1 DEF CInv, CallsFit, CallFits
  <2>3. UNCHANGED <<server, rows, loaded, versions, pending, renamed, manual, asked>>
    BY DEF Leave, listVars, countVars
  <2>4. ClientTypeOK' /\ ViewFits'
    BY <1>1, <2>2, <2>3 DEF CInv, ClientTypeOK, ViewFits
  <2>5. \A d \in calls' : /\ CallFits(d)' /\ RenameFits(d)' /\ DetailFits(d)' /\ RunFits(d)'
    BY <2>2 DEF CInv, CallsFit, CallFits, RenameFits, DetailFits, RunFits
  <2>6. \A d \in calls' : ListFits(d)'
    BY <2>2, <2>3, KeepLists
  <2> QED BY <1>3, <2>4, <2>5, <2>6, Whole
<1> QED BY <1>2, <1>3

\* The detail says whether the page's first message creates the session.
LEMMA DetailStep ==
    ASSUME CInv, NEW c \in calls, c.kind = "detail", c.at = "answered", Detail(c)
    PROVE  CInv'
<1>1. c \in CallRecord /\ CallFits(c) /\ DetailFits(c)
  BY Known
<1>2. /\ c.session = view.session /\ c.session \in Chat /\ view.loaded = FALSE /\ c.heard
      /\ \A d \in calls : d.kind = "detail" /\ d.heard => d = c
  BY <1>1 DEF CallFits, DetailFits, CInv, ClientTypeOK, View
<1>3. UNCHANGED <<server, rows, loaded, versions, pending, renamed, manual, asked>>
      /\ calls' = calls \ {c}
  BY DEF Detail, listVars, countVars
<1>4. /\ view' \in View /\ view'.session = view.session /\ view'.attempted = view.attempted
      /\ view'.streaming = view.streaming
      /\ \/ view' = view
         \/ view'.eligible => c.value = Absent
  <2>1. view \in View /\ Eligible(c.value) \in BOOLEAN
    BY DEF CInv, ClientTypeOK, Eligible
  <2>2. PICK e \in BOOLEAN : e = Eligible(c.value)
    BY <2>1
  <2>3. view' = view \/ view' = [view EXCEPT !.loaded = TRUE, !.eligible = e]
    BY <2>2 DEF Detail
  <2> QED BY <2>1, <2>2, <2>3 DEF View, Eligible
<1>5. \A d \in calls : d.kind = "run" => d.heard = FALSE
  BY <1>2 DEF CInv, CallsFit, RunFits, ClientTypeOK, CallRecord
<1>6. ClientTypeOK' /\ ViewFits'
  BY <1>2, <1>3, <1>4 DEF CInv, ClientTypeOK, ViewFits
<1>7. \A d \in calls' : CallFits(d)'
  BY <1>3 DEF CInv, CallsFit, CallFits
<1>8. \A d \in calls' : ListFits(d)'
  BY <1>3, KeepLists
<1>9. \A d \in calls' : RenameFits(d)'
  BY <1>3, KeepRenames
<1>10. \A d \in calls' : DetailFits(d)' /\ RunFits(d)'
  BY <1>2, <1>3, <1>5 DEF DetailFits, RunFits
<1>11. \A x \in Chat : ManualFits(x)'
  BY <1>3, KeepManual
<1>12. ASSUME NEW x \in Chat PROVE AskedFits(x)'
  <2>1. AskedFits(x)
    BY DEF CInv
  <2>2. \A d \in calls : d.kind = "run" => d.at # "answered"
    BY <1>5 DEF CInv, CallsFit, CallFits
  <2> QED BY <1>3, <1>4, <2>1, <2>2 DEF AskedFits, Silent
<1>13. ASSUME NEW x \in Chat PROVE MadeFits(x)'
  <2>1. MadeFits(x)
    BY DEF CInv
  <2>2. \A d \in calls : d.kind = "run" => d.at # "answered"
    BY <1>5 DEF CInv, CallsFit, CallFits
  <2>3. CASE view' = view
    BY <1>3, <2>1, <2>3 DEF MadeFits
  <2>4. CASE view'.eligible => c.value = Absent
    <3>1. view.session = x /\ c.value = Absent => (server[x].at = "live" => server[x].made)
      BY <1>2, <2>1 DEF MadeFits
    <3> QED BY <1>3, <1>4, <2>1, <2>2, <2>4, <3>1 DEF MadeFits
  <2> QED BY <1>4, <2>3, <2>4
<1> QED BY <1>6, <1>7, <1>8, <1>9, <1>10, <1>11, <1>12, <1>13, Whole

LEMMA SendMessageStep == ASSUME CInv, SendMessage PROVE CInv'
<1> DEFINE s == view.session
<1>1. view.loaded /\ view.streaming = FALSE /\ s \in Chat
  BY DEF SendMessage, CInv, ViewFits, ClientTypeOK, View
<1>2. PICK x \in Chat : x = s
  BY <1>1
<1>3. PICK n : n = Request("run", x, Nothing) /\ Sent(n, "run", x, Nothing)
  BY Requested DEF Kind, Value
<1>4. /\ n \in CallRecord /\ n.kind = "run" /\ n.session = view.session /\ n.at = "sent"
      /\ n.heard = TRUE /\ calls' = calls \cup {n}
  BY <1>2, <1>3 DEF Sent, SendMessage
<1>5. UNCHANGED <<server, loaded, versions, pending, renamed, manual, asked>>
  BY DEF SendMessage, countVars
<1>6. /\ view' \in View /\ view'.session = view.session /\ view'.loaded = view.loaded
      /\ view'.eligible = view.eligible /\ view'.attempted = view.attempted
      /\ view'.streaming = TRUE
  BY DEF SendMessage, CInv, ClientTypeOK, View
<1>7. /\ rows' \in [Chat -> Value]
      /\ \A y \in Chat : rows[y] # Absent => rows'[y] = rows[y]
  BY <1>2 DEF SendMessage, CInv, ClientTypeOK, Value
<1>8. \A d \in calls : d.kind = "run" => d.heard = FALSE
  BY <1>1 DEF CInv, CallsFit, RunFits, ClientTypeOK, CallRecord
<1>9. ClientTypeOK' /\ ViewFits'
  BY <1>4, <1>5, <1>6, <1>7 DEF CInv, ClientTypeOK, ViewFits
<1>10. \A d \in calls' : CallFits(d)'
  BY <1>2, <1>4 DEF CInv, CallsFit, CallFits
<1>11. \A d \in calls' : ListFits(d)'
  BY <1>4, <1>5, KeepLists
<1>12. \A d \in calls' : RenameFits(d)'
  BY <1>4, <1>5, <1>7 DEF CInv, CallsFit, CallFits, RenameFits
<1>13. \A d \in calls' : DetailFits(d)'
  BY <1>4, <1>6, KeepDetails
<1>14. \A d \in calls' : RunFits(d)'
  BY <1>1, <1>4, <1>6, <1>8 DEF RunFits
<1>15. \A y \in Chat : ManualFits(y)'
  BY <1>5, <1>7, MarksAreNoTitles DEF CInv, ManualFits
<1>16. \A y \in Chat : AskedFits(y)'
  BY <1>4, <1>5, <1>6, KeepAsked
<1>17. \A y \in Chat : MadeFits(y)'
  BY <1>4, <1>5, <1>6, KeepMade
<1> QED BY <1>9, <1>10, <1>11, <1>12, <1>13, <1>14, <1>15, <1>16, <1>17, Whole

LEMMA RunStartedStep ==
    ASSUME CInv, NEW c \in calls, c.kind = "run", c.at = "answered", RunStarted(c)
    PROVE  CInv'
<1> DEFINE s == c.session
           asks == view.eligible /\ ~view.attempted
<1>1. c \in CallRecord /\ CallFits(c) /\ RunFits(c) /\ c.value = "accepted"
  BY Known DEF RunStarted
<1>2. /\ s \in Chat /\ s = view.session /\ view.loaded /\ view.streaming /\ c.heard
      /\ server[s].at # "none"
      /\ \A d \in calls : d.kind = "run" /\ d.heard => d = c
  BY <1>1 DEF CallFits, RunFits, Error
<1>3. PICK n : n = [c EXCEPT !.value = "started"] /\ Answers(n, c, "started")
  BY <1>1, StartedHeir
<1>4. /\ n \in CallRecord /\ n.kind = "run" /\ n.session = s /\ n.at = "answered"
      /\ n.value = "started" /\ n.heard = c.heard
  BY <1>3 DEF Answers
<1>5. PICK x \in Chat : x = s
  BY <1>2
<1>6. PICK m : m = Request("title", x, Nothing) /\ Sent(m, "title", x, Nothing)
  BY Requested DEF Kind, Value
<1>7. m \in CallRecord /\ m.kind = "title" /\ m.session = s /\ m.at = "sent" /\ m.heard = TRUE
  BY <1>5, <1>6 DEF Sent
<1>8. \A d \in calls' : (d \in calls /\ d # c) \/ d = n \/ d = m
  BY <1>3, <1>5, <1>6 DEF RunStarted
<1>9. UNCHANGED <<server, rows, loaded, versions, pending, renamed, manual>>
  BY DEF RunStarted, listVars
<1>10. /\ view' \in View /\ view'.session = view.session /\ view'.loaded = view.loaded
       /\ view'.eligible = view.eligible /\ view'.streaming = view.streaming
       /\ view'.attempted <=> (view.attempted \/ asks)
  <2>1. PICK a \in BOOLEAN : a = asks
    BY DEF CInv, ClientTypeOK, View
  <2>2. view' = [view EXCEPT !.attempted = @ \/ a]
    BY <2>1 DEF RunStarted
  <2>3. view \in View
    BY DEF CInv, ClientTypeOK
  <2> HIDE DEF asks
  <2> QED BY <2>1, <2>2, <2>3 DEF View
<1>11. /\ asked' \in [Chat -> Nat]
       /\ \A y \in Chat : asked'[y] = IF y = s /\ asks THEN asked[y] + 1 ELSE asked[y]
  BY <1>2 DEF RunStarted, CInv, ClientTypeOK
<1>12. ClientTypeOK' /\ ViewFits'
  BY <1>4, <1>7, <1>8, <1>9, <1>10, <1>11 DEF CInv, ClientTypeOK, ViewFits
<1>13. \A d \in calls' : CallFits(d)'
  BY <1>2, <1>4, <1>7, <1>8 DEF CInv, CallsFit, CallFits
<1>14. \A d \in calls' : ListFits(d)'
  BY <1>4, <1>7, <1>8, <1>9, KeepLists
<1>15. \A d \in calls' : RenameFits(d)'
  BY <1>4, <1>7, <1>8, <1>9, KeepRenames
<1>16. \A d \in calls' : DetailFits(d)'
  BY <1>4, <1>7, <1>8, <1>10, KeepDetails
<1>17. \A d \in calls' : RunFits(d)'
  BY <1>2, <1>4, <1>7, <1>8, <1>9, <1>10 DEF RunFits
<1>18. \A y \in Chat : ManualFits(y)'
  BY <1>9, KeepManual
<1>19. ASSUME NEW y \in Chat PROVE AskedFits(y)'
  <2>1. AskedFits(y) /\ asked[y] \in Nat
    BY DEF CInv, ClientTypeOK
  <2>2. CASE y = s /\ asks
    <3>1. asked[y] = 0
      BY <1>1, <1>2, <2>1, <2>2 DEF AskedFits, Silent
    <3>2. asked'[y] = 1
      BY <1>11, <2>2, <3>1
    <3>3. view'.attempted /\ server'[y].at # "none"
      BY <1>2, <1>9, <1>10, <2>2
    <3> QED BY <3>2, <3>3 DEF AskedFits, Silent
  <2>3. CASE ~(y = s /\ asks)
    <3>1. asked'[y] = asked[y]
      BY <1>11, <2>3
    <3>2. \A d \in calls' : d.at = "answered" => d \in calls \/ d.value = "started"
      BY <1>4, <1>7, <1>8
    <3>3. view'.session = y /\ ~view'.attempted => view.session = y /\ ~view.attempted
      BY <1>10
    <3>4. \A d \in calls' : d.at = "answered" /\ d.kind = "detail" => d \in calls
      BY <1>4, <1>7, <1>8
    <3> QED BY <1>9, <1>10, <2>1, <3>1, <3>2, <3>3, <3>4 DEF AskedFits, Silent
  <2> QED BY <2>2, <2>3
<1>20. ASSUME NEW y \in Chat PROVE MadeFits(y)'
  <2>1. MadeFits(y) /\ asked[y] \in Nat
    BY DEF CInv, ClientTypeOK
  <2>2. \A d \in calls' : d.at = "answered" => d \in calls \/ (d.kind = "run" /\ d.value = "started")
    BY <1>4, <1>7, <1>8
  <2>3. y = s /\ asks => server[y].made
    BY <1>1, <1>2, <2>1 DEF MadeFits
  <2>4. asked'[y] > 0 => server[y].made
    BY <1>11, <2>1, <2>3 DEF MadeFits
  <2> QED BY <1>9, <1>10, <2>1, <2>2, <2>4 DEF MadeFits
<1> QED BY <1>12, <1>13, <1>14, <1>15, <1>16, <1>17, <1>18, <1>19, <1>20, Whole

\* The page stops listening to its run.
LEMMA Deafened ==
    ASSUME CInv, NEW s \in Chat,
           view' = [view EXCEPT !.streaming = FALSE],
           \A d \in calls' : \/ d \in Reads(s)
                             \/ /\ d \in CallRecord
                                /\ \/ d \in calls /\ (d.kind # "run" \/ d.heard = FALSE)
                                   \/ /\ d.kind = "run" /\ d.heard = FALSE
                                      /\ d.at = "sent" /\ d.session \in Chat,
           UNCHANGED <<server, listVars, countVars>>
    PROVE  CInv'
<1>1. \A d \in Reads(s) : /\ d \in CallRecord /\ d.kind = "refresh" /\ d.session = s
                          /\ d.at = "sent" /\ d.heard = TRUE
  BY Reading DEF Sent, CInv
<1>2. UNCHANGED <<server, rows, loaded, versions, pending, renamed, manual, asked>>
  BY DEF listVars, countVars
<1>3. /\ view' \in View /\ view'.session = view.session /\ view'.loaded = view.loaded
      /\ view'.eligible = view.eligible /\ view'.attempted = view.attempted
  BY DEF CInv, ClientTypeOK, View
<1>4. ClientTypeOK' /\ ViewFits'
  BY <1>1, <1>2, <1>3 DEF CInv, ClientTypeOK, ViewFits
<1>5. \A d \in calls' : CallFits(d)'
  BY <1>1 DEF CInv, CallsFit, CallFits
<1>6. \A d \in calls' : ListFits(d)'
  BY <1>1, <1>2, KeepLists
<1>7. \A d \in calls' : RenameFits(d)'
  BY <1>1, <1>2, KeepRenames
<1>8. \A d \in calls' : DetailFits(d)'
  BY <1>1, <1>3, KeepDetails
<1>9. \A d \in calls' : RunFits(d)'
  BY <1>1 DEF RunFits
<1>10. \A y \in Chat : ManualFits(y)'
  BY <1>2, KeepManual
<1>11. \A d \in calls' : d.at = "answered" /\ d.kind \in {"run", "detail"} => d \in calls
  BY <1>1
<1>12. \A y \in Chat : AskedFits(y)'
  BY <1>2, <1>3, <1>11, KeepAsked
<1>13. \A y \in Chat : MadeFits(y)'
  BY <1>2, <1>3, <1>11, KeepMade
<1> QED BY <1>4, <1>5, <1>6, <1>7, <1>8, <1>9, <1>10, <1>12, <1>13, Whole

LEMMA RunEndsStep ==
    ASSUME CInv, NEW c \in calls, c.kind = "run", c.at = "answered", RunEnds(c)
    PROVE  CInv'
<1>1. c \in CallRecord /\ CallFits(c) /\ RunFits(c)
  BY Known
<1>2. c.session \in Chat /\ \A d \in calls : d.kind = "run" /\ d.heard => d = c
  BY <1>1 DEF CallFits, RunFits
<1>3. PICK s \in Chat : s = c.session
  BY <1>2
<1>4. \A d \in calls : d \in CallRecord /\ (d.heard \/ d.heard = FALSE)
  BY DEF CInv, ClientTypeOK, CallRecord
<1>5. \A d \in calls' : d \in Reads(s) \/ (d \in calls /\ d # c)
  BY <1>3 DEF RunEnds
<1> QED BY <1>2, <1>4, <1>5, Deafened DEF RunEnds

LEMMA StopStep == ASSUME CInv, Stop PROVE CInv'
<1>1. PICK c \in calls : c.kind = "run" /\ c.heard
  BY DEF Stop
<1>2. view.session \in Chat
  BY <1>1, Known DEF CallFits, RunFits
<1>3. PICK s \in Chat : s = view.session
  BY <1>2
<1>4. \A d \in Unheard({"run"}) :
         /\ d \in CallRecord
         /\ \/ d \in calls /\ (d.kind # "run" \/ d.heard = FALSE)
            \/ d.kind = "run" /\ d.heard = FALSE /\ d.at = "sent" /\ d.session \in Chat
  <2>1. PICK kinds \in SUBSET {"run", "title", "detail"} : kinds = {"run"}
    OBVIOUS
  <2> QED BY <2>1, UnheardCalls
<1> QED BY <1>3, <1>4, Deafened DEF Stop

-----------------------------------------------------------------------------
(* The list *)

\* A step that only takes a request away, or adds what is of no concern, and may
\* rewrite a row that no rename protects.
LEMMA RowStep ==
    ASSUME CInv, NEW n,
           \A d \in calls' : d \in calls \/ (d = n /\ n \in CallRecord /\ n.at = "sent" /\ n.heard
                                             /\ n.kind \in {"list", "refresh"}
                                             /\ (n.kind # "list" => n.session \in Chat)),
           \A d \in calls' : ListFits(d)',
           rows' \in [Chat -> Value], versions' \in [Chat -> Nat],
           \A s \in renamed : rows'[s] = rows[s],
           UNCHANGED <<server, loaded, pending, renamed, view, countVars>>
    PROVE  CInv'
<1>1. UNCHANGED <<server, loaded, pending, renamed, view, manual, asked>>
  BY DEF countVars
<1>2. ClientTypeOK' /\ ViewFits'
  BY <1>1 DEF CInv, ClientTypeOK, ViewFits
<1>3. \A d \in calls' : CallFits(d)'
  BY DEF CInv, CallsFit, CallFits
<1>4. \A d \in calls' : RenameFits(d)'
  BY <1>1, KeepRenames
<1>5. \A d \in calls' : DetailFits(d)'
  BY <1>1, KeepDetails
<1>6. \A d \in calls' : RunFits(d)'
  BY <1>1, KeepRuns
<1>7. \A s \in Chat : ManualFits(s)'
  BY <1>1, KeepManual
<1>8. \A s \in Chat : AskedFits(s)'
  BY <1>1, KeepAsked
<1>9. \A s \in Chat : MadeFits(s)'
  BY <1>1, KeepMade
<1> QED BY <1>2, <1>3, <1>4, <1>5, <1>6, <1>7, <1>8, <1>9, Whole

LEMMA LoadInitialStep == ASSUME CInv, LoadInitial PROVE CInv'
<1>1. PICK n : n = Request("list", Nothing, Nothing) /\ Sent(n, "list", Nothing, Nothing)
  BY Requested DEF Kind, Value
<1>2. /\ n \in CallRecord /\ n.kind = "list" /\ n.at = "sent" /\ n.heard = TRUE
      /\ calls' = calls \cup {n}
  BY <1>1 DEF Sent, LoadInitial
<1>3. \A d \in calls' : ListFits(d)'
  BY <1>2 DEF LoadInitial, listVars, ListFits
<1>4. rows' \in [Chat -> Value] /\ versions' \in [Chat -> Nat] /\ rows' = rows
  BY DEF LoadInitial, listVars, CInv, ClientTypeOK
<1> QED BY <1>2, <1>3, <1>4, RowStep DEF LoadInitial, listVars

\* The first page disturbs every rename and ends what was confirmed.
LEMMA ListedStep ==
    ASSUME CInv, NEW c \in calls, c.kind = "list", c.at = "answered", Listed(c)
    PROVE  CInv'
<1>1. c \in CallRecord /\ ListFits(c)
  BY Known
<1>2. /\ loaded = FALSE /\ \A d \in calls : d.kind = "list" => d = c
  BY <1>1 DEF ListFits, CInv, ClientTypeOK
<1>3. /\ UNCHANGED <<server, versions, pending, renamed, view, asked>> /\ loaded' = TRUE
      /\ calls \subseteq CallRecord
  BY DEF Listed, CInv, ClientTypeOK
<1>4. CASE calls' = calls \ {c} /\ UNCHANGED <<rows, manual>>
  <2>1. ClientTypeOK' /\ ViewFits'
    BY <1>3, <1>4 DEF CInv, ClientTypeOK, ViewFits
  <2>2. \A d \in calls' : CallFits(d)' /\ ListFits(d)'
    BY <1>2, <1>4 DEF CInv, CallsFit, CallFits, ListFits
  <2>3. (\A d \in calls' : RenameFits(d)') /\ \A s \in Chat : ManualFits(s)'
    BY <1>3, <1>4, KeepRenames, KeepManual
  <2>4. (\A d \in calls' : DetailFits(d)') /\ \A d \in calls' : RunFits(d)'
    BY <1>3, <1>4, KeepDetails, KeepRuns
  <2>5. (\A s \in Chat : AskedFits(s)') /\ \A s \in Chat : MadeFits(s)'
    BY <1>3, <1>4, KeepAsked, KeepMade
  <2> QED BY <2>1, <2>2, <2>3, <2>4, <2>5, Whole
<1>5. CASE /\ rows' = c.list /\ manual' = [s \in Chat |-> Nothing]
           /\ calls' = Disturbed(calls \ {c}, Chat)
  <2>1. \A d \in calls' :
           \/ d \in calls /\ d # c /\ ~(d.kind = "rename" /\ d.session \in Chat)
           \/ /\ d \in CallRecord /\ d.kind = "rename" /\ d.session \in Chat /\ d.alone = FALSE
              /\ \E b \in calls : /\ b.kind = "rename" /\ b.session = d.session
                                  /\ b.value = d.value /\ b.heard = d.heard /\ b.at = d.at /\ b.was = d.was
    <3>1. PICK some \in SUBSET CallRecord : some = calls \ {c}
      BY <1>3
    <3>2. \A d \in Disturbed(some, Chat) :
             \/ d \in some /\ ~(d.kind = "rename" /\ d.session \in Chat)
             \/ /\ d \in CallRecord /\ d.kind = "rename" /\ d.session \in Chat /\ d.alone = FALSE
                /\ \E b \in some : /\ b.kind = "rename" /\ b.session = d.session
                                   /\ b.value = d.value /\ b.heard = d.heard /\ b.at = d.at /\ b.was = d.was
      BY Disturbing
    <3> QED BY <1>5, <3>1, <3>2
  <2>2. rows' \in [Chat -> Value] /\ manual' \in [Chat -> Value]
    BY <1>1, <1>5 DEF CallRecord, Value
  <2>3. ClientTypeOK' /\ ViewFits'
    BY <1>3, <2>1, <2>2 DEF CInv, ClientTypeOK, ViewFits
  <2>4. \A d \in calls' : CallFits(d)'
    BY <2>1 DEF CInv, CallsFit, CallFits
  <2>5. \A d \in calls' : ListFits(d)'
    BY <1>2, <2>1 DEF ListFits
  <2>6. ASSUME NEW d \in calls', d.kind = "rename" PROVE RenameFits(d)'
    <3>1. d.session \in Chat /\ d.kind # "list"
      BY <2>4, <2>6 DEF CallFits
    <3>2. d.alone = FALSE /\ d.value \in Title \cup {Error}
      BY <2>1, <2>6, <3>1 DEF CInv, CallsFit, RenameFits
    <3>3. manual'[d.session] = Nothing
      BY <1>5, <3>1
    <3> QED BY <3>2, <3>3 DEF RenameFits
  <2>12. \A d \in calls' : RenameFits(d)'
    BY <2>6 DEF RenameFits
  <2>7. \A d \in calls' : DetailFits(d)'
    BY <1>3, <2>1, KeepDetails
  <2>8. \A d \in calls' : RunFits(d)'
    BY <1>3, <2>1, KeepRuns
  <2>9. \A s \in Chat : ManualFits(s)'
    BY <1>5 DEF ManualFits
  <2>10. \A s \in Chat : AskedFits(s)'
    BY <1>3, <2>1, KeepAsked
  <2>11. \A s \in Chat : MadeFits(s)'
    BY <1>3, <2>1, KeepMade
  <2> QED BY <2>3, <2>4, <2>5, <2>12, <2>7, <2>8, <2>9, <2>10, <2>11, Whole
<1> QED BY <1>4, <1>5 DEF Listed

LEMMA TitleAnsweredStep ==
    ASSUME CInv, NEW c \in calls, c.kind = "title", TitleAnswered(c)
    PROVE  CInv'
<1>1. c \in CallRecord /\ c.session \in Chat
  BY Known DEF CallFits
<1>2. /\ rows' \in [Chat -> Value] /\ versions' \in [Chat -> Nat]
      /\ \A s \in renamed : rows'[s] = rows[s]
  <2>1. /\ rows \in [Chat -> Value] /\ versions \in [Chat -> Nat]
        /\ c.value = Error \/ c.value \in Value
    BY <1>1 DEF CInv, ClientTypeOK, CallRecord
  <2>2. CASE c.value = Error
    BY <2>1, <2>2 DEF TitleAnswered
  <2>3. CASE c.value # Error
    <3>1. /\ rows' = [rows EXCEPT ![c.session] =
                        IF @ = Absent \/ c.session \in renamed THEN @ ELSE c.value]
          /\ versions' = [versions EXCEPT ![c.session] = @ + 1]
      BY <2>3 DEF TitleAnswered, ApplyTitle, Written
    <3> QED BY <1>1, <2>1, <2>3, <3>1
  <2> QED BY <2>2, <2>3
<1>3. calls' = calls \ {c} /\ loaded' = loaded
  BY DEF TitleAnswered
<1>4. \A d \in calls' : ListFits(d)'
  BY <1>3, KeepLists
<1> QED BY <1>2, <1>3, <1>4, RowStep DEF TitleAnswered

LEMMA RefreshAnsweredStep ==
    ASSUME CInv, NEW c \in calls, c.kind = "refresh", RefreshAnswered(c)
    PROVE  CInv'
<1>1. c \in CallRecord /\ c.session \in Chat
  BY Known DEF CallFits
<1>2. /\ rows' \in [Chat -> Value] /\ versions' \in [Chat -> Nat]
      /\ \A s \in renamed : rows'[s] = rows[s]
  BY <1>1 DEF RefreshAnswered, CInv, ClientTypeOK, CallRecord
<1>3. calls' = calls \ {c} /\ loaded' = loaded
  BY DEF RefreshAnswered
<1>4. \A d \in calls' : ListFits(d)'
  BY <1>3, KeepLists
<1> QED BY <1>2, <1>3, <1>4, RowStep DEF RefreshAnswered

LEMMA RenameStep ==
    ASSUME CInv, NEW s \in Chat, NEW title \in Title, Rename(s, title)
    PROVE  CInv'
<1>1. PICK b \in BOOLEAN : b = (s \in renamed)
  <2>1. s \in renamed => TRUE = (s \in renamed)
    BY Zenon
  <2>2. s \notin renamed => FALSE = (s \in renamed)
    OBVIOUS
  <2> QED BY <2>1, <2>2, Zenon
<1>2. PICK a \in BOOLEAN : a = (Of("rename", s) = {})
  <2>1. Of("rename", s) = {} => TRUE = (Of("rename", s) = {})
    BY Zenon
  <2>2. Of("rename", s) # {} => FALSE = (Of("rename", s) = {})
    OBVIOUS
  <2> QED BY <2>1, <2>2, Zenon
<1>3. PICK n : /\ n = [Request("rename", s, title) EXCEPT !.was = b, !.alone = a]
               /\ Sent(n, "rename", s, title) /\ n.was = b /\ n.alone = a
  <2>1. PICK n : n = [Request("rename", s, title) EXCEPT !.was = b, !.alone = a]
    OBVIOUS
  <2>2. n.was = b /\ n.alone = a
    BY <2>1 DEF Request
  <2>3. n.kind = "rename" /\ n.session = s /\ n.at = "sent" /\ n.value = title /\ n.heard = TRUE
    BY <2>1 DEF Request
  <2>4. n \in CallRecord
    BY <1>1, <1>2, <2>1 DEF Request, CallRecord, Value, Kind
  <2> QED BY <2>1, <2>2, <2>3, <2>4 DEF Sent
<1>4. calls' = Disturbed(calls, {s}) \cup {n}
  BY <1>1, <1>2, <1>3 DEF Rename
<1>5. /\ n \in CallRecord /\ n.kind = "rename" /\ n.session = s /\ n.at = "sent"
      /\ n.value = title /\ n.heard = TRUE /\ (n.was <=> s \in renamed)
      /\ n.alone => \A d \in calls : ~(d.kind = "rename" /\ d.session = s)
  BY <1>1, <1>2, <1>3 DEF Sent, Of
<1>6. \A d \in calls' :
         \/ d = n
         \/ d \in calls /\ ~(d.kind = "rename" /\ d.session = s)
         \/ /\ d \in CallRecord /\ d.kind = "rename" /\ d.session = s /\ d.alone = FALSE
            /\ \E c \in calls : /\ c.kind = "rename" /\ c.session = s
                                /\ c.value = d.value /\ c.heard = d.heard /\ c.at = d.at /\ c.was = d.was
  <2>1. PICK some \in SUBSET CallRecord : some = calls
    BY DEF CInv, ClientTypeOK
  <2>2. \A d \in Disturbed(some, {s}) :
           \/ d \in some /\ ~(d.kind = "rename" /\ d.session \in {s})
           \/ /\ d \in CallRecord /\ d.kind = "rename" /\ d.session \in {s} /\ d.alone = FALSE
              /\ \E c \in some : /\ c.kind = "rename" /\ c.session = d.session
                                 /\ c.value = d.value /\ c.heard = d.heard /\ c.at = d.at /\ c.was = d.was
    BY Disturbing
  <2>3. calls' = Disturbed(some, {s}) \cup {n}
    BY <1>4, <2>1
  <2>4. ASSUME NEW d \in Disturbed(some, {s})
        PROVE  \/ d \in calls /\ ~(d.kind = "rename" /\ d.session = s)
               \/ /\ d \in CallRecord /\ d.kind = "rename" /\ d.session = s /\ d.alone = FALSE
                  /\ \E c \in calls : /\ c.kind = "rename" /\ c.session = s
                                      /\ c.value = d.value /\ c.heard = d.heard /\ c.at = d.at /\ c.was = d.was
    BY <2>1, <2>2
  <2> QED BY <2>3, <2>4
<1>7. /\ UNCHANGED <<server, rows, loaded, view, manual, asked>>
      /\ renamed' = renamed \cup {s} /\ pending' = pending \cup {s} /\ rows[s] # Absent
  BY DEF Rename
<1>8. versions' \in [Chat -> Nat]
  <2>1. versions' = [versions EXCEPT ![s] = @ + 1]
    BY DEF Rename, Written
  <2>2. versions \in [Chat -> Nat]
    BY DEF CInv, ClientTypeOK
  <2> QED BY <2>1, <2>2
<1>9. ClientTypeOK' /\ ViewFits'
  BY <1>5, <1>6, <1>7, <1>8 DEF CInv, ClientTypeOK, ViewFits
<1>10. \A d \in calls' : CallFits(d)'
  BY <1>5, <1>6 DEF CInv, CallsFit, CallFits
<1>11. \A d \in calls' : ListFits(d)'
  BY <1>5, <1>6, <1>7, KeepLists
<1>12. ASSUME NEW d \in calls' PROVE RenameFits(d)'
  <2>1. manual[s] # Nothing => n.was
    BY <1>5 DEF CInv, ManualFits
  <2>2. CASE d = n
    <3>1. n.alone => \A e \in calls' : e.kind = "rename" /\ e.session = s => e = n
      BY <1>5, <1>6
    <3> QED BY <1>5, <1>7, <2>1, <2>2, <3>1 DEF RenameFits
  <2>3. CASE d \in calls /\ ~(d.kind = "rename" /\ d.session = s)
    <3>1. RenameFits(d)
      BY <2>3 DEF CInv, CallsFit
    <3>2. \A e \in calls' : e.kind = "rename" /\ e.session # s => e \in calls
      BY <1>5, <1>6
    <3> QED BY <1>7, <2>3, <3>1, <3>2 DEF RenameFits
  <2>4. CASE d.kind = "rename" /\ d.alone = FALSE /\ \E c \in calls :
                 c.kind = "rename" /\ c.session = d.session /\ c.value = d.value /\ c.was = d.was
    BY <1>7, <2>4 DEF CInv, CallsFit, RenameFits
  <2> QED BY <1>6, <2>2, <2>3, <2>4
<1>13. \A d \in calls' : DetailFits(d)'
  BY <1>5, <1>6, <1>7, KeepDetails
<1>14. \A d \in calls' : RunFits(d)'
  BY <1>5, <1>6, <1>7, KeepRuns
<1>15. \A x \in Chat : ManualFits(x)'
  BY <1>7, KeepManual
<1>16. \A x \in Chat : AskedFits(x)'
  BY <1>5, <1>6, <1>7, KeepAsked
<1>17. \A x \in Chat : MadeFits(x)'
  BY <1>5, <1>6, <1>7, KeepMade
<1> QED BY <1>9, <1>10, <1>11, <1>12, <1>13, <1>14, <1>15, <1>16, <1>17, Whole

\* While an undisturbed rename of a session is under way, no other one of it is.
LEMMA RenameAnsweredStep ==
    ASSUME CInv, NEW c \in calls, c.kind = "rename", RenameAnswered(c)
    PROVE  CInv'
<1>1. PICK s \in Chat : s = c.session
  BY Known DEF CallFits
<1>2. /\ c \in CallRecord /\ c.value \in Title \cup {Error}
      /\ manual[s] # Nothing => c.was
      /\ c.alone => /\ rows[s] # Absent /\ s \in renamed
                    /\ \A d \in calls : d.kind = "rename" /\ d.session = s => d = c
  BY <1>1, Known DEF RenameFits
<1>3. UNCHANGED <<server, loaded, versions, view, asked>> /\ pending' = pending \ {s}
  BY <1>1 DEF RenameAnswered
<1>4. \A d \in Reads(s) : /\ d \in CallRecord /\ d.kind = "refresh" /\ d.session = s
                          /\ d.at = "sent" /\ d.heard = TRUE
  BY Reading DEF Sent, CInv
<1>5. \A d \in calls' : d \in Reads(s) \/ (d \in calls /\ d # c)
  BY <1>1 DEF RenameAnswered
<1>6. ManualFits(s)
  BY DEF CInv
<1>7. /\ \A x \in renamed : x # s => x \in renamed'
      /\ renamed' \subseteq renamed
      /\ \A x \in Chat : x # s => rows'[x] = rows[x] /\ manual'[x] = manual[x]
      /\ rows' \in [Chat -> Value] /\ manual' \in [Chat -> Value]
      /\ \/ rows'[s] = rows[s] /\ manual'[s] = manual[s] /\ (s \in renamed' \/ manual[s] = Nothing)
         \/ manual'[s] = Nothing
         \/ /\ rows'[s] = c.value /\ manual'[s] = c.value /\ c.value \in Title /\ s \in renamed'
            /\ c.alone
  <2>1. CASE c.value = Error
    BY <1>1, <1>2, <1>6, <2>1 DEF RenameAnswered, CInv, ClientTypeOK, ManualFits
  <2>3. CASE c.value # Error
    <3>1. /\ rows' = [rows EXCEPT ![s] = c.value] /\ renamed' = renamed
          /\ manual' = [manual EXCEPT ![s] = IF c.alone THEN c.value ELSE Nothing]
      BY <1>1, <2>3 DEF RenameAnswered, Confirmed
    <3>2. c.value \in Title /\ c.value \in Value /\ Nothing \in Value
      BY <1>2, <2>3 DEF Value
    <3>3. rows \in [Chat -> Value] /\ manual \in [Chat -> Value]
      BY DEF CInv, ClientTypeOK
    <3> QED BY <1>1, <1>2, <3>1, <3>2, <3>3
  <2> QED BY <2>1, <2>3
<1>8. ClientTypeOK' /\ ViewFits'
  BY <1>3, <1>4, <1>5, <1>7 DEF CInv, ClientTypeOK, ViewFits
<1>9. \A d \in calls' : CallFits(d)'
  BY <1>4, <1>5 DEF CInv, CallsFit, CallFits
<1>10. \A d \in calls' : ListFits(d)'
  BY <1>3, <1>4, <1>5, KeepLists
<1>11. ASSUME NEW d \in calls', d.kind = "rename" PROVE RenameFits(d)'
  <2>1. d \in calls /\ d # c /\ RenameFits(d) /\ d.session \in Chat
    BY <1>4, <1>5, <1>11 DEF CInv, CallsFit, CallFits
  <2>2. d.alone => d.session # s
    BY <1>1, <1>11, <2>1 DEF RenameFits
  <2>3. \A e \in calls' : e.kind = "rename" => e \in calls
    BY <1>4, <1>5
  <2>4. c.alone => d.session # s
    BY <1>2, <1>11, <2>1
  <2> QED BY <1>7, <1>11, <2>1, <2>2, <2>3, <2>4 DEF RenameFits
<1>12. \A d \in calls' : RenameFits(d)'
  BY <1>11 DEF RenameFits
<1>13. \A d \in calls' : DetailFits(d)'
  BY <1>3, <1>4, <1>5, KeepDetails
<1>14. \A d \in calls' : RunFits(d)'
  BY <1>3, <1>4, <1>5, KeepRuns
<1>15. \A x \in Chat : ManualFits(x)'
  BY <1>3, <1>7 DEF CInv, ManualFits
<1>16. \A x \in Chat : AskedFits(x)'
  BY <1>3, <1>4, <1>5, KeepAsked
<1>17. \A x \in Chat : MadeFits(x)'
  BY <1>3, <1>4, <1>5, KeepMade
<1> QED BY <1>8, <1>9, <1>10, <1>12, <1>13, <1>14, <1>15, <1>16, <1>17, Whole

LEMMA RemoveSessionStep == ASSUME CInv, NEW s \in Chat, RemoveSession(s) PROVE CInv'
<1>1. PICK b \in BOOLEAN : b = (view.session = s)
  <2>1. view.session = s => TRUE = (view.session = s)
    BY Zenon
  <2>2. view.session # s => FALSE = (view.session = s)
    OBVIOUS
  <2> QED BY <2>1, <2>2, Zenon
<1>2. PICK a \in BOOLEAN : a = (Of("delete", s) = {})
  <2>1. Of("delete", s) = {} => TRUE = (Of("delete", s) = {})
    BY Zenon
  <2>2. Of("delete", s) # {} => FALSE = (Of("delete", s) = {})
    OBVIOUS
  <2> QED BY <2>1, <2>2, Zenon
<1>3. PICK n : /\ n = [Request("delete", s, Nothing) EXCEPT !.was = b, !.alone = a]
               /\ Sent(n, "delete", s, Nothing)
  BY Marking DEF Value
<1>4. /\ n \in CallRecord /\ n.kind = "delete" /\ n.session = s /\ n.at = "sent"
      /\ n.heard = TRUE /\ calls' = calls \cup {n}
  BY <1>1, <1>2, <1>3 DEF Sent, RemoveSession
<1>5. UNCHANGED <<server, rows, loaded, versions, pending, renamed, view, manual, asked>>
  BY DEF RemoveSession, listVars
<1>6. ClientTypeOK' /\ ViewFits'
  BY <1>4, <1>5 DEF CInv, ClientTypeOK, ViewFits
<1>7. \A d \in calls' : CallFits(d)'
  BY <1>4 DEF CInv, CallsFit, CallFits
<1>8. \A d \in calls' : ListFits(d)'
  BY <1>4, <1>5, KeepLists
<1>9. \A d \in calls' : RenameFits(d)'
  BY <1>4, <1>5, KeepRenames
<1>10. \A d \in calls' : DetailFits(d)'
  BY <1>4, <1>5, KeepDetails
<1>11. \A d \in calls' : RunFits(d)'
  BY <1>4, <1>5, KeepRuns
<1>12. \A x \in Chat : ManualFits(x)'
  BY <1>5, KeepManual
<1>13. \A x \in Chat : AskedFits(x)'
  BY <1>4, <1>5, KeepAsked
<1>14. \A x \in Chat : MadeFits(x)'
  BY <1>4, <1>5, KeepMade
<1> QED BY <1>6, <1>7, <1>8, <1>9, <1>10, <1>11, <1>12, <1>13, <1>14, Whole

\* A removed session takes its row, its protection and what was confirmed of it
\* along, and disturbs its renames.
LEMMA RemovedStep ==
    ASSUME CInv, NEW c \in calls, c.kind = "delete", Removed(c)
    PROVE  CInv'
<1>1. PICK s \in Chat : s = c.session
  BY Known DEF CallFits
<1>2. calls \in SUBSET CallRecord
  BY DEF CInv, ClientTypeOK
<1>3. CASE c.value = Error
  <2>1. calls' = calls \ {c} /\ UNCHANGED <<server, rows, loaded, versions, pending, renamed, view, countVars>>
    BY <1>3 DEF Removed, listVars
  <2>2. rows' \in [Chat -> Value] /\ versions' \in [Chat -> Nat]
    BY <2>1 DEF CInv, ClientTypeOK
  <2>3. \A d \in calls' : ListFits(d)'
    BY <2>1, KeepLists
  <2> QED BY <2>1, <2>2, <2>3, RowStep
<1>4. CASE c.value # Error
  <2>1. /\ rows' = [rows EXCEPT ![s] = Absent]
        /\ pending' = pending \ {s} /\ renamed' = renamed \ {s}
        /\ versions' = [versions EXCEPT ![s] = 0] /\ manual' = [manual EXCEPT ![s] = Nothing]
        /\ UNCHANGED <<server, loaded, asked>>
    BY <1>1, <1>4 DEF Removed
  <2>2. /\ rows' \in [Chat -> Value] /\ manual' \in [Chat -> Value] /\ versions' \in [Chat -> Nat]
        /\ manual'[s] = Nothing
        /\ \A x \in Chat : x # s => rows'[x] = rows[x] /\ manual'[x] = manual[x]
    BY <2>1 DEF CInv, ClientTypeOK, Value
  <2>3. PICK some \in SUBSET CallRecord :
           /\ calls' = Disturbed(some, {s})
           /\ view' \in View
           /\ \A d \in some :
                 \/ d \in calls
                 \/ /\ d.kind \in {"run", "title", "detail"}
                    /\ d.heard = FALSE /\ d.at = "sent" /\ d.session \in Chat
           /\ \/ view' = view /\ some \subseteq calls
              \/ /\ view'.loaded = FALSE /\ view'.eligible = FALSE
                 /\ \A d \in some : d.kind \in {"run", "title", "detail"} => d.heard = FALSE
    <3>1. CASE c.was
      <4>1. view' = Landing /\ calls' = Disturbed(Unheard({"run", "title", "detail"}) \ {c}, {s})
        BY <1>1, <1>4, <3>1 DEF Removed
      <4>2. \A d \in Unheard({"run", "title", "detail"}) :
               /\ d \in CallRecord
               /\ \/ d \in calls /\ (d.kind \notin {"run", "title", "detail"} \/ d.heard = FALSE)
                  \/ /\ d.kind \in {"run", "title", "detail"}
                     /\ d.heard = FALSE /\ d.at = "sent" /\ d.session \in Chat
        BY UnheardCalls
      <4>3. PICK some \in SUBSET CallRecord : some = Unheard({"run", "title", "detail"}) \ {c}
        BY <4>2
      <4> QED BY <4>1, <4>2, <4>3, LandingType
    <3>2. CASE ~c.was
      <4>1. view' = view /\ calls' = Disturbed(calls \ {c}, {s}) /\ view \in View
        BY <1>1, <1>4, <3>2 DEF Removed, CInv, ClientTypeOK
      <4>2. PICK some \in SUBSET CallRecord : some = calls \ {c}
        BY <1>2
      <4> QED BY <4>1, <4>2
    <3> QED BY <3>1, <3>2
  <2>4. \A d \in calls' :
           \/ d \in some /\ ~(d.kind = "rename" /\ d.session = s)
           \/ /\ d \in CallRecord /\ d.kind = "rename" /\ d.session = s /\ d.alone = FALSE
              /\ \E b \in some : /\ b.kind = "rename" /\ b.session = d.session
                                 /\ b.value = d.value /\ b.heard = d.heard /\ b.at = d.at /\ b.was = d.was
    <3>1. \A d \in Disturbed(some, {s}) :
             \/ d \in some /\ ~(d.kind = "rename" /\ d.session \in {s})
             \/ /\ d \in CallRecord /\ d.kind = "rename" /\ d.session \in {s} /\ d.alone = FALSE
                /\ \E b \in some : /\ b.kind = "rename" /\ b.session = d.session
                                   /\ b.value = d.value /\ b.heard = d.heard /\ b.at = d.at /\ b.was = d.was
      BY Disturbing
    <3> QED BY <2>3, <3>1
  <2>5. ClientTypeOK' /\ ViewFits'
    BY <2>1, <2>2, <2>3, <2>4 DEF CInv, ClientTypeOK, ViewFits
  <2>6. \A b \in some : CallFits(b) /\ RenameFits(b) /\ (b.kind \in {"rename", "list"} => b \in calls)
    BY <2>3 DEF CInv, CallsFit, CallFits, RenameFits
  <2>7. \A d \in calls' : CallFits(d)'
    BY <2>4, <2>6 DEF CallFits
  <2>8. \A d \in calls' : ListFits(d)'
    BY <2>1, <2>4, <2>6, KeepLists
  <2>9. ASSUME NEW d \in calls', d.kind = "rename" PROVE RenameFits(d)'
    <3>1. CASE d \in some /\ d.session # s
      <4>1. d \in calls /\ RenameFits(d) /\ d.session \in Chat
        BY <2>6, <2>9, <3>1 DEF CallFits
      <4>2. \A e \in calls' : e.kind = "rename" /\ e.session # s => e \in calls
        BY <2>4, <2>6
      <4> QED BY <2>1, <2>2, <2>9, <3>1, <4>1, <4>2 DEF RenameFits
    <3>2. CASE d.alone = FALSE /\ d.session = s /\ \E b \in some : b.kind = "rename" /\ b.value = d.value
      BY <2>2, <2>6, <2>9, <3>2 DEF RenameFits
    <3> QED BY <2>4, <2>9, <3>1, <3>2
  <2>10. \A d \in calls' : RenameFits(d)'
    BY <2>9 DEF RenameFits
  <2>11. \A d \in calls' : DetailFits(d)' /\ RunFits(d)'
    <3>1. \A d \in calls' : d.kind \in {"detail", "run"} => d \in some
      BY <2>4
    <3>2. CASE view' = view /\ some \subseteq calls
      BY <2>1, <3>1, <3>2 DEF CInv, CallsFit, DetailFits, RunFits
    <3>3. CASE \A d \in some : d.kind \in {"run", "title", "detail"} => d.heard = FALSE
      BY <3>1, <3>3 DEF DetailFits, RunFits
    <3> QED BY <2>3, <3>2, <3>3
  <2>12. \A x \in Chat : ManualFits(x)'
    BY <2>1, <2>2 DEF CInv, ManualFits
  <2>13. \A d \in calls' : d.kind \in {"run", "detail"} /\ d.at = "answered" =>
             d \in some /\ d \in calls /\ d.heard
    BY <2>3, <2>4, <2>7 DEF CallFits
  <2>14. ASSUME NEW x \in Chat PROVE AskedFits(x)' /\ MadeFits(x)'
    <3>1. AskedFits(x) /\ MadeFits(x)
      BY DEF CInv
    <3>2. CASE view' = view /\ some \subseteq calls
      BY <2>1, <2>13, <3>1, <3>2 DEF AskedFits, Silent, MadeFits
    <3>3. CASE /\ view'.eligible = FALSE
               /\ \A d \in some : d.kind \in {"run", "title", "detail"} => d.heard = FALSE
      <4>1. \A d \in calls' : d.kind \in {"run", "detail"} => d.at # "answered"
        BY <2>13, <3>3
      <4> QED BY <2>1, <3>1, <3>3, <4>1 DEF AskedFits, Silent, MadeFits
    <3> QED BY <2>3, <3>2, <3>3
  <2> QED BY <2>5, <2>7, <2>8, <2>10, <2>11, <2>12, <2>14, Whole
<1> QED BY <1>3, <1>4

-----------------------------------------------------------------------------
(* The invariant *)

LEMMA ClientInitInv == ASSUME ClientInit PROVE CInv
<1>1. ClientTypeOK
  <2>1. Fallback \in Value \ {Absent} /\ Absent \in Value /\ Nothing \in Value
    BY DEF Value, Fallback, Absent
  <2>2. \A at \in {"none", "live"} : [at |-> at, title |-> Fallback, made |-> FALSE] \in ServerRecord
    BY <2>1 DEF ServerRecord
  <2>3. server \in [Chat -> ServerRecord]
    BY <2>2 DEF ClientInit
  <2>4. view \in View /\ calls \subseteq CallRecord /\ loaded \in BOOLEAN
    BY LandingType DEF ClientInit
  <2> QED BY <2>1, <2>3, <2>4 DEF ClientInit, ClientTypeOK
<1>2. ViewFits /\ CallsFit
  BY LandingType DEF ClientInit, ViewFits, CallsFit
<1>3. \A s \in Chat : ManualFits(s) /\ AskedFits(s) /\ MadeFits(s)
  BY LandingType DEF ClientInit, ManualFits, AskedFits, MadeFits
<1> QED BY <1>1, <1>2, <1>3 DEF CInv

LEMMA ArriveStep == ASSUME CInv, NEW c \in calls, Arrive(c) PROVE CInv'
  BY DetailStep, RunStartedStep, RunEndsStep, ListedStep, TitleAnsweredStep, RefreshAnsweredStep,
     RenameAnsweredStep, RemovedStep DEF Arrive

\* Every step of the tab and of the server keeps the invariant.
LEMMA ClientStep == CInv /\ [ClientNext]_clientVars => CInv'
<1> SUFFICES ASSUME CInv, [ClientNext]_clientVars PROVE CInv'
  OBVIOUS
<1>1. CASE \E s \in Chat : OpenPage(s)
  BY <1>1, OpenPageStep
<1>2. CASE \E s \in Chat : RemoveSession(s)
  BY <1>2, RemoveSessionStep
<1>3. CASE \E s \in Chat, title \in Title : Rename(s, title)
  BY <1>3, RenameStep
<1>4. CASE Leave \/ SendMessage \/ Stop \/ LoadInitial
  BY <1>4, LeaveStep, SendMessageStep, StopStep, LoadInitialStep
<1>5. CASE \E c \in calls : Serve(c)
  BY <1>5, ServeStep
<1>6. CASE \E c \in calls : Arrive(c)
  BY <1>6, ArriveStep
<1>7. CASE UNCHANGED clientVars
  <2>1. UNCHANGED <<server, rows, loaded, versions, pending, renamed, view, calls, manual, asked>>
    BY <1>7 DEF clientVars
  <2> QED BY <2>1 DEF CInv, ClientTypeOK, CallsFit, CallFits, ListFits, RenameFits, DetailFits,
                RunFits, ViewFits, ManualFits, AskedFits, MadeFits, Silent
<1> QED BY <1>1, <1>2, <1>3, <1>4, <1>5, <1>6, <1>7 DEF ClientNext

\* CInv holds in every state the tab can reach.
THEOREM ClientInvariant == ClientSpec => []CInv
<1> QED BY ClientInitInv, ClientStep, PTL DEF ClientSpec

-----------------------------------------------------------------------------
(* What follows *)

\* Whatever the visitor opens, leaves, stops and sends, and whatever order the
\* answers come in, the tab asks for the title of a session at most once, and only
\* for one that a message of its own made (useAgentRun.ts: titleEligible,
\* titleAttempted).
THEOREM TitleOnceHolds == ClientSpec => []TitleOnce
<1>1. CInv => TitleOnce
  BY DEF CInv, AskedFits, MadeFits, TitleOnce
<1> QED BY <1>1, ClientInvariant, PTL

\* A rename that the server confirmed to the tab and that nothing disturbed is
\* what its row says until the row or the list is replaced, whatever other answers
\* come and whichever of several later renames fail (session-list-store.ts:
\* applyTitle, refreshSession, rename).
THEOREM ManualStaysHolds == ClientSpec => []ManualStays
<1>1. CInv => ManualStays
  BY DEF CInv, ManualFits, ManualStays
<1> QED BY <1>1, ClientInvariant, PTL

\* With renames and deletions under way together in any number and order: only the
\* loaded list, a message of the visitor and a confirmed rename that was disturbed
\* make a row where there is none (session-list-store.ts: touchDraft, applyTitle,
\* refreshSession, rename).
THEOREM RemovedStaysHolds == ClientSpec => RemovedStays
<1> DEFINE Stays ==
       \A s \in Chat : rows[s] = Absent /\ rows'[s] # Absent =>
           \/ loaded' /\ ~loaded
           \/ view.session = s /\ view'.streaming /\ ~view.streaming
           \/ \E c \in Of("rename", s) \ calls' : c.at = "answered" /\ c.value # Error /\ ~c.alone
<1>1. ASSUME CInv, [ClientNext]_clientVars PROVE [Stays]_clientVars
  <2>1. CASE (\E s \in Chat : OpenPage(s) \/ RemoveSession(s) \/ \E title \in Title : Rename(s, title))
             \/ Leave \/ Stop \/ LoadInitial \/ \E c \in calls : Serve(c)
    <3>1. rows' = rows
      BY <2>1 DEF OpenPage, RemoveSession, Rename, Leave, Stop, LoadInitial, Serve, listVars
    <3> QED BY <3>1
  <2>2. CASE SendMessage
    <3>1. view.session \in Chat /\ view'.streaming = TRUE
      BY <1>1, <2>2 DEF SendMessage, CInv, ViewFits, ClientTypeOK, View
    <3> QED BY <1>1, <2>2, <3>1 DEF SendMessage, CInv, ClientTypeOK
  <2>3. ASSUME NEW c \in calls, Arrive(c) PROVE Stays
    <3>1. c.kind # "list" => c.session \in Chat
      BY <1>1, Known DEF CallFits
    <3>2. CASE c.kind = "list" /\ Listed(c)
      BY <1>1, <3>2, Known DEF ListFits, Listed
    <3>3. CASE c.kind = "rename" /\ RenameAnswered(c)
      <4> SUFFICES ASSUME NEW s \in Chat, rows[s] = Absent, rows'[s] # Absent
                   PROVE  \E d \in Of("rename", s) \ calls' : d.at = "answered" /\ d.value # Error /\ ~d.alone
        OBVIOUS
      <4>1. c.session = s /\ c.value # Error /\ calls' = calls \ {c}
        BY <1>1, <3>1, <3>3 DEF RenameAnswered, Confirmed, CInv, ClientTypeOK
      <4>2. c.at = "answered" /\ ~c.alone
        BY <1>1, <2>3, <3>3, <4>1, Known DEF Arrive, RenameFits
      <4> QED BY <3>3, <4>1, <4>2 DEF Of
    <3>4. CASE c.kind = "title" /\ TitleAnswered(c)
      BY <1>1, <3>1, <3>4 DEF TitleAnswered, ApplyTitle, CInv, ClientTypeOK
    <3>5. CASE c.kind = "refresh" /\ RefreshAnswered(c)
      BY <1>1, <3>1, <3>5 DEF RefreshAnswered, CInv, ClientTypeOK
    <3>6. CASE c.kind = "delete" /\ Removed(c)
      BY <1>1, <3>1, <3>6 DEF Removed, listVars, CInv, ClientTypeOK
    <3>7. CASE Detail(c) \/ RunStarted(c) \/ RunEnds(c)
      <4>1. rows' = rows
        BY <3>7 DEF Detail, RunStarted, RunEnds, listVars
      <4> QED BY <4>1
    <3> QED BY <2>3, <3>2, <3>3, <3>4, <3>5, <3>6, <3>7 DEF Arrive
  <2> QED BY <1>1, <2>1, <2>2, <2>3 DEF ClientNext
<1> QED BY <1>1, ClientInvariant, PTL DEF ClientSpec, RemovedStays

=============================================================================
