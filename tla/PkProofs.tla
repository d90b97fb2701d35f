------------------------------ MODULE PkProofs ------------------------------
(***************************************************************************)
(* The main loop, its events and errors, and loading, for any requests,    *)
(* images and sounds.                                                      *)
(***************************************************************************)
EXTENDS PkEngine, PkLoading, PkSequenceLemmas

(* Loading.  Images and sounds are added up: the sums are equal only where *)
(* both parts are, since neither exceeds its total.                        *)

Settled == {s \in Sounds : sounds_[s].loaded}
Stored == {n \in Names : images_[n] > 0}

\* What is counted: the sounds that are settled, each once, however often and late the
\* browser reports them.
SoundsCounted == loaded_sounds_ = Cardinality(Settled)

\* The preloader's count is of the images that are no longer under way.
PreloaderCounted ==
    /\ preloader \in Int /\ preloader >= -1
    /\ preloader = -1 => preloader_resource_count_ = 0
    /\ preloader >= 0 => preloader_resource_count_ = PreloaderImages + 1 - preloader
    /\ ready > 0 => preloader = 0
    /\ ready \in Nat

\* Nothing is settled before load_sounds has all it needs, and then the total is set.
SoundsStart ==
    /\ sounds_ \in [Sounds -> Sound]
    /\ timeout = "none" => Settled = {}
    /\ timeout # "none" => total_sounds_ = Cardinality(Sounds)
    /\ loaded_sounds_ \in Nat /\ total_sounds_ \in Nat

\* As long as errors are collected, all that came are there to be reported.
ErrorsCollected ==
    /\ ~errors_off => erred = errors_
    /\ erred \subseteq Sounds
    /\ timeout = "set" /\ ~loading_complete => Sounds = {} \/ Settled # Sounds

\* A sound that failed or was given up has lost its handler for good, and nothing is
\* reported and no error dropped before loading completes.
ErrorsDropped ==
    /\ erred \subseteq Sounds /\ reported \subseteq Sounds /\ errors_ \subseteq erred
    /\ \A s \in erred \cup reported : ~sounds_[s].handler
    /\ errors_off => loading_complete
    /\ ~loading_complete => reported = {}
    /\ timeout = "none" => erred = {} /\ reported = {} /\ ~loading_complete

LoadingInv ==
    /\ SoundsCounted
    /\ PreloaderCounted
    /\ SoundsStart
    /\ ErrorsCollected
    /\ ErrorsDropped
    /\ ~resources_loaded_ => complete = 0
    /\ complete \in Nat

\* The first time the game is told is once.
LEMMA ToldOne == Told(0) = 1
<1> DEFINE S == {2, 0 + 1}
<1>1. PICK m \in S : \A n \in S : m <= n
  OBVIOUS
<1>2. Min(S) = 1
  BY <1>1 DEF Min
<1> QED BY <1>2 DEF Told

LEMMA SettledFinite ==
    ASSUME NEW S \in SUBSET Sounds
    PROVE  /\ IsFiniteSet(S) /\ Cardinality(S) \in Nat /\ Cardinality(S) <= Cardinality(Sounds)
           /\ Cardinality(S) = Cardinality(Sounds) => S = Sounds
           /\ Cardinality(Sounds) \in Nat
<1>1. IsFiniteSet(Sounds)
  BY LoadingAssumption DEF LoadingAssumption
<1>2. /\ IsFiniteSet(S) /\ Cardinality(S) <= Cardinality(Sounds)
      /\ Cardinality(Sounds) = Cardinality(S) => Sounds = S
  BY <1>1, FS_Subset
<1> QED BY <1>1, <1>2, FS_CardinalityType

\* Two disjoint sets of sounds are counted one after the other.
LEMMA CountedOnce ==
    ASSUME NEW S \in SUBSET Sounds, NEW T \in SUBSET Sounds, S \cap T = {}
    PROVE  Cardinality(S \cup T) = Cardinality(S) + Cardinality(T)
<1>1. IsFiniteSet(S) /\ IsFiniteSet(T)
  BY SettledFinite
<1>2. Cardinality(S \cup T) = Cardinality(S) + Cardinality(T) - Cardinality({})
  BY <1>1, FS_Union
<1>3. Cardinality(S) \in Nat /\ Cardinality(T) \in Nat /\ Cardinality({}) = 0
  BY SettledFinite, FS_EmptySet
<1> QED BY <1>2, <1>3

\* Calls of resource_loading_finished_ settle the sounds, and count those that were not.
LEMMA FinishedCounts ==
    ASSUME SoundsCounted, SoundsStart, NEW S \in SUBSET Sounds, NEW keep \in BOOLEAN,
           Finished(S, keep)
    PROVE  /\ sounds_' \in [Sounds -> Sound]
           /\ Settled' = Settled \cup S
           /\ SoundsCounted'
           /\ loaded_sounds_' \in Nat
<1> DEFINE T == {s \in S : ~sounds_[s].loaded}
<1>1. sounds_' \in [Sounds -> Sound]
  BY DEF Finished, SoundsStart, Sound
<1>2. Settled' = Settled \cup S
  BY <1>1 DEF Finished, Settled, SoundsStart, Sound
<1>3. /\ T \in SUBSET Sounds /\ Settled \in SUBSET Sounds
      /\ Settled \cap T = {} /\ Settled \cup T = Settled \cup S
  BY DEF Settled
<1>4. loaded_sounds_' = loaded_sounds_ + Cardinality(T)
  BY DEF Finished
<1> HIDE DEF T
<1>5. Cardinality(Settled \cup T) = Cardinality(Settled) + Cardinality(T)
  BY <1>3, CountedOnce
<1>6. Cardinality(T) \in Nat
  BY <1>3, SettledFinite
<1> QED BY <1>1, <1>2, <1>3, <1>4, <1>5, <1>6 DEF SoundsCounted, SoundsStart

\* Settling sounds gives none of them its handler back, and takes it from those that fail.
LEMMA StaysDropped ==
    ASSUME SoundsStart, ErrorsDropped, NEW S \in SUBSET Sounds, NEW keep \in BOOLEAN,
           Finished(S, keep), NEW lost, lost = IF keep THEN {} ELSE S,
           erred' \subseteq erred \cup lost,
           errors_' \subseteq erred', reported' \subseteq reported \cup erred' \cup lost
    PROVE  /\ erred' \subseteq Sounds /\ reported' \subseteq Sounds /\ errors_' \subseteq erred'
           /\ \A s \in erred' \cup reported' : ~sounds_'[s].handler
<1>1. erred' \subseteq Sounds /\ reported' \subseteq Sounds
  BY DEF ErrorsDropped
<1>2. ASSUME NEW s \in erred' \cup reported' PROVE ~sounds_'[s].handler
  <2>1. s \in Sounds /\ (s \in erred \cup reported \/ (~keep /\ s \in S))
    BY <1>1, <1>2
  <2>2. CASE ~keep /\ s \in S
    BY <2>1, <2>2 DEF Finished
  <2>3. CASE s \in erred \cup reported
    <3>1. ~sounds_[s].handler
      BY <2>3 DEF ErrorsDropped
    <3> QED BY <2>1, <3>1 DEF Finished
  <2> QED BY <2>1, <2>2, <2>3
<1> QED BY <1>1, <1>2

\* resource_loading_finished_ for one sound, with what it reports.
LEMMA OneSettles ==
    ASSUME LoadingInv, NEW s \in Sounds, NEW keep \in BOOLEAN, timeout # "none",
           Finished({s}, keep), Report(errors_'),
           UNCHANGED <<pre, graphics, loader, disabled, total_sounds_, errors_off, on_error_, timeout>>,
           ~errors_off => erred' = errors_', errors_' \subseteq erred',
           erred' \subseteq erred \cup (IF keep THEN {} ELSE {s})
    PROVE  LoadingInv'
<1>1. /\ sounds_' \in [Sounds -> Sound] /\ Settled' = Settled \cup {s}
      /\ SoundsCounted' /\ loaded_sounds_' \in Nat
  BY FinishedCounts DEF LoadingInv
<1>2. SoundsStart'
  BY <1>1 DEF LoadingInv, SoundsStart
<1>3. PreloaderCounted'
  BY DEF LoadingInv, PreloaderCounted, pre
<1>5. ErrorsDropped'
  <2>1. reported' \subseteq reported \cup errors_'
    BY DEF Report
  <2>2. /\ erred' \subseteq Sounds /\ reported' \subseteq Sounds /\ errors_' \subseteq erred'
        /\ \A t \in erred' \cup reported' : ~sounds_'[t].handler
    <3>1. reported' \subseteq reported \cup erred' \cup (IF keep THEN {} ELSE {s})
      BY <2>1
    <3> QED BY <3>1, StaysDropped DEF LoadingInv
  <2>3. (errors_off => loading_complete)' /\ (~loading_complete => reported = {})'
    BY DEF LoadingInv, ErrorsDropped, Report, Reports
  <2> QED BY <2>2, <2>3 DEF ErrorsDropped
<1>4. ErrorsCollected'
  <2>1. SUFFICES ASSUME timeout' = "set", ~loading_complete', Settled' = Sounds
                 PROVE  FALSE
    BY <1>5 DEF LoadingInv, ErrorsCollected, ErrorsDropped
  <2>2. total_sounds_' = Cardinality(Sounds) /\ loaded_sounds_' = Cardinality(Sounds)
    BY <1>1, <1>2, <2>1 DEF SoundsStart, SoundsCounted
  <2>3. loaded_sounds_' >= total_sounds_
    BY <2>2, SettledFinite
  <2> QED BY <2>1, <2>3 DEF Report
<1> QED BY <1>1, <1>2, <1>3, <1>4, <1>5 DEF LoadingInv, loader

LEMMA TimeoutKeeps == LoadingInv /\ Timeout => LoadingInv' /\ Settled' = Sounds
<1> SUFFICES ASSUME LoadingInv, Timeout PROVE LoadingInv' /\ Settled' = Sounds
  OBVIOUS
<1>1. Unloaded \in SUBSET Sounds /\ Settled \cup Unloaded = Sounds
  BY DEF Unloaded, Settled
<1>2. /\ sounds_' \in [Sounds -> Sound] /\ Settled' = Settled \cup Unloaded
      /\ SoundsCounted' /\ loaded_sounds_' \in Nat
  BY <1>1, FinishedCounts DEF LoadingInv, Timeout, GivenUp
<1>3. SoundsStart'
  BY <1>2 DEF LoadingInv, SoundsStart, Timeout
<1>4. PreloaderCounted'
  BY DEF LoadingInv, PreloaderCounted, pre, Timeout
<1>5. ErrorsCollected'
  BY DEF LoadingInv, ErrorsCollected, Timeout
<1>6. ErrorsDropped'
  <2>1. erred' = erred /\ errors_' \subseteq erred' /\ reported' \subseteq reported \cup erred' \cup Unloaded
    BY DEF LoadingInv, ErrorsDropped, Timeout
  <2>2. /\ erred' \subseteq Sounds /\ reported' \subseteq Sounds /\ errors_' \subseteq erred'
        /\ \A t \in erred' \cup reported' : ~sounds_'[t].handler
    BY <1>1, <2>1, StaysDropped DEF LoadingInv, Timeout, GivenUp
  <2>3. (errors_off => loading_complete)'
    BY DEF LoadingInv, ErrorsDropped, Timeout
  <2>4. (~loading_complete => reported = {})'
    <3>1. SUFFICES ASSUME ~loading_complete' PROVE reported' = {}
      OBVIOUS
    <3>2. ~loading_complete /\ Unloaded = {} /\ Cardinality(Unloaded) = 0
      BY <3>1, FS_EmptySet DEF Timeout
    <3>3. reported = {}
      BY <3>2 DEF LoadingInv, ErrorsDropped
    <3> QED BY <3>2, <3>3 DEF Timeout
  <2> QED BY <2>2, <2>3, <2>4 DEF ErrorsDropped, Timeout
<1> QED BY <1>1, <1>2, <1>3, <1>4, <1>5, <1>6 DEF LoadingInv, loader, Timeout

LEMMA PreloaderKeeps == LoadingInv /\ (InitLoader \/ PreloaderLoad) => LoadingInv'
<1> SUFFICES ASSUME LoadingInv, InitLoader \/ PreloaderLoad PROVE LoadingInv'
  OBVIOUS
<1>1. UNCHANGED <<audio, loader>> /\ Settled' = Settled
  BY DEF InitLoader, PreloaderLoad, audio, Settled
<1>2. PreloaderCounted'
  <2>1. PreloaderImages \in Nat
    BY LoadingAssumption DEF LoadingAssumption
  <2>2. CASE InitLoader
    BY <2>1, <2>2 DEF InitLoader, LoadingInv, PreloaderCounted
  <2>3. CASE PreloaderLoad
    <3>1. ready = 0 /\ preloader \in Nat \ {0}
      BY <2>3 DEF PreloaderLoad, LoadingInv, PreloaderCounted
    <3>2. ready' \in Nat /\ (ready' > 0 => PreloaderReady(preloader_resource_count_ + 1))
      <4>1. Told(ready) \in Nat
        BY <3>1, ToldOne
      <4> QED BY <2>3, <3>1, <4>1 DEF PreloaderLoad
    <3> QED BY <2>1, <2>3, <3>1, <3>2 DEF PreloaderLoad, PreloaderReady, LoadingInv, PreloaderCounted
  <2> QED BY <2>2, <2>3
<1> QED BY <1>1, <1>2 DEF LoadingInv, SoundsCounted, SoundsStart, ErrorsCollected, ErrorsDropped,
          audio, loader

LEMMA CheckedKeeps ==
    ASSUME LoadingInv, NEW img, UNCHANGED <<pre, audio>>,
           CheckLoaded(img) \/ UNCHANGED <<resources_loaded_, complete>>
    PROVE  LoadingInv'
<1>1. Settled' = Settled
  BY DEF audio, Settled
<1>2. (~resources_loaded_ => complete = 0)' /\ complete' \in Nat
  <2>1. CASE UNCHANGED <<resources_loaded_, complete>>
    BY <2>1 DEF LoadingInv
  <2>2. CASE CheckLoaded(img) /\ complete' = Told(complete) /\ resources_loaded_' /\ ~resources_loaded_
    BY <2>2, ToldOne DEF LoadingInv
  <2> QED BY <2>1, <2>2 DEF CheckLoaded, loader
<1> QED BY <1>1, <1>2 DEF LoadingInv, SoundsCounted, SoundsStart, ErrorsCollected,
          ErrorsDropped, PreloaderCounted, audio, pre

LEMMA LoadSoundsKeeps ==
    ASSUME LoadingInv, NEW format \in Formats, NEW listeners \in BOOLEAN,
           LoadSounds(format, listeners)
    PROVE  LoadingInv'
<1>1. timeout = "none" /\ Settled = {}
      /\ UNCHANGED <<pre, loader, loaded_sounds_, errors_, errors_off, erred, loading_complete, reported>>
  BY DEF LoadSounds, LoadingInv, SoundsStart
<1>2. sounds_' \in [Sounds -> Sound] /\ Settled' = {}
  <2>1. Unsettled \in Sound /\ ~Unsettled.loaded
    BY DEF Unsettled, Sound
  <2>2. sounds_ \in [Sounds -> Sound] /\ \A s \in Sounds : ~sounds_[s].loaded
    BY <1>1 DEF LoadingInv, SoundsStart, Settled
  <2>3. \/ sounds_' = sounds_
        \/ \E s \in Sounds : sounds_' = [sounds_ EXCEPT ![s] = Unsettled]
        \/ sounds_' = [s \in Sounds |-> Unsettled]
    BY DEF LoadSounds
  <2>4. sounds_' \in [Sounds -> Sound] /\ \A s \in Sounds : ~sounds_'[s].loaded
    BY <2>1, <2>2, <2>3
  <2> QED BY <2>4 DEF Settled
<1>3. SoundsCounted'
  BY <1>1, <1>2 DEF LoadingInv, SoundsCounted
<1>4. SoundsStart'
  <2>1. Cardinality(Sounds) \in Nat /\ Cardinality({}) = 0
    BY SettledFinite, FS_EmptySet
  <2>2. timeout' # "none" => total_sounds_' = Cardinality(Sounds)
    BY <1>1, <2>1 DEF LoadSounds
  <2> QED BY <1>1, <1>2, <2>1, <2>2 DEF LoadSounds, LoadingInv, SoundsStart
<1>5. PreloaderCounted' /\ ErrorsCollected'
  BY <1>1, <1>2 DEF LoadingInv, PreloaderCounted, ErrorsCollected, pre
<1>6. ErrorsDropped'
  BY <1>1 DEF LoadingInv, ErrorsDropped
<1> QED BY <1>1, <1>3, <1>4, <1>5, <1>6 DEF LoadingInv, loader

LEMMA LoadingStarts == LoadingInit => LoadingInv
<1> SUFFICES ASSUME LoadingInit PROVE LoadingInv
  OBVIOUS
<1>1. Settled = {} /\ Cardinality({}) = 0
  BY FS_EmptySet DEF LoadingInit, Settled, Absent
<1> QED BY <1>1 DEF LoadingInit, LoadingInv, SoundsCounted, PreloaderCounted, SoundsStart,
          ErrorsCollected, ErrorsDropped, Sound, Absent

LEMMA LoadingStep == LoadingInv /\ [LoadingNext]_loadingVars => LoadingInv'
<1> SUFFICES ASSUME LoadingInv, [LoadingNext]_loadingVars PROVE LoadingInv'
  OBVIOUS
<1>1. CASE InitLoader \/ PreloaderLoad
  BY <1>1, PreloaderKeeps
<1>2. CASE LoadGraphics
  BY <1>2, CheckedKeeps DEF LoadGraphics, loader
<1>3. ASSUME NEW i \in Images, ImageLoad(i) \/ ImageFails(i) PROVE LoadingInv'
  BY <1>3, CheckedKeeps DEF ImageLoad, ImageFails, loader
<1>4. CASE SetSoundErrorHandler
  BY <1>4 DEF SetSoundErrorHandler, LoadingInv, SoundsCounted, PreloaderCounted, SoundsStart,
     ErrorsCollected, ErrorsDropped, Settled, pre, loader
<1>5. ASSUME NEW format \in Formats, NEW listeners \in BOOLEAN, LoadSounds(format, listeners)
      PROVE  LoadingInv'
  BY <1>5, LoadSoundsKeeps
<1>6. ASSUME NEW s \in Sounds, CanPlay(s) PROVE LoadingInv'
  <2>1. errors_' = errors_ /\ Report(errors_')
    BY <1>6 DEF CanPlay
  <2> QED BY <1>6, <2>1, OneSettles DEF CanPlay, LoadingInv, ErrorsCollected, ErrorsDropped
<1>7. ASSUME NEW s \in Sounds, SoundFails(s) PROVE LoadingInv'
  <2>1. /\ ~errors_off => erred' = errors_'
        /\ errors_' \subseteq erred' /\ erred' \subseteq erred \cup {s}
    BY <1>7 DEF SoundFails, LoadingInv, ErrorsCollected, ErrorsDropped
  <2> QED BY <1>7, <2>1, OneSettles DEF SoundFails
<1>8. CASE Timeout
  BY <1>8, TimeoutKeeps
<1>9. CASE Check
  BY <1>9, CheckedKeeps DEF Check, audio
<1>10. CASE UNCHANGED loadingVars
  BY <1>10, CheckedKeeps DEF loadingVars, loader
<1> QED BY <1>1, <1>2, <1>3, <1>4, <1>5, <1>6, <1>7, <1>8, <1>9, <1>10 DEF LoadingNext

\* When the two sums agree, both parts do.
LEMMA BothComplete ==
    ASSUME LoadingInv, NEW img, Progress(img) >= AllResources
    PROVE  /\ \A n \in Names : images_[n] > 0 => img[images_[n]] = "loaded"
           /\ disabled \/ total_sounds_ = 0 \/ Unloaded = {}
<1> DEFINE a == Cardinality(LoadedImages(img))
           b == Cardinality(Stored)
           c == Cardinality(Settled)
           d == Cardinality(Sounds)
<1>1. IsFiniteSet(Names)
  BY LoadingAssumption DEF LoadingAssumption
<1>2. IsFiniteSet(Stored) /\ LoadedImages(img) \in SUBSET Stored
  BY <1>1, FS_Subset DEF Stored, LoadedImages
<1>3. a \in Nat /\ b \in Nat /\ a <= b /\ (b = a => Stored = LoadedImages(img))
  BY <1>2, FS_Subset, FS_CardinalityType
<1>4. c \in Nat /\ d \in Nat /\ c <= d /\ (c = d => Settled = Sounds)
  <2>1. Settled \in SUBSET Sounds
    BY DEF Settled
  <2> QED BY <2>1, SettledFinite
<1>5. /\ loaded_sounds_ = c
      /\ timeout = "none" => Settled = {}
      /\ timeout # "none" => total_sounds_ = d
      /\ total_sounds_ \in Nat
  BY DEF LoadingInv, SoundsCounted, SoundsStart
<1>6. Settled = {} => c = 0
  BY FS_EmptySet
<1>7. IF disabled THEN a >= b ELSE a + c >= b + total_sounds_
  <2>1. /\ Progress(img) = a + (IF disabled THEN 0 ELSE c)
        /\ AllResources = b + (IF disabled THEN 0 ELSE total_sounds_)
    BY <1>5 DEF Progress, AllResources, Stored
  <2> HIDE DEF a, b, c, d
  <2> QED BY <1>3, <1>4, <1>5, <2>1
<1> HIDE DEF a, b, c, d
<1>8. a = b /\ (disabled \/ total_sounds_ = 0 \/ c = d)
  BY <1>3, <1>4, <1>5, <1>6, <1>7
<1>9. Stored = LoadedImages(img) /\ (c = d => Unloaded = {})
  BY <1>3, <1>4, <1>8 DEF Unloaded, Settled
<1> QED BY <1>8, <1>9 DEF Stored, LoadedImages

Complete ==
    /\ complete' > complete =>
         /\ complete = 0
         /\ \A n \in Names : images_[n] > 0 => image'[images_[n]] = "loaded"
         /\ disabled \/ total_sounds_ = 0 \/ Unloaded = {}
    /\ ready' > ready => ready = 0 /\ preloader' = 0

LEMMA CheckTells ==
    ASSUME LoadingInv, CheckLoaded(image'), UNCHANGED ready
    PROVE  Complete
<1>1. CASE complete' > complete
  <2>1. ~resources_loaded_ /\ Progress(image') >= AllResources
    BY <1>1 DEF CheckLoaded, loader, LoadingInv
  <2>2. complete = 0
    BY <2>1 DEF LoadingInv
  <2> QED BY <2>1, <2>2, BothComplete DEF Complete, LoadingInv, PreloaderCounted
<1>2. CASE ~(complete' > complete)
  BY <1>2 DEF Complete, LoadingInv, PreloaderCounted
<1> QED BY <1>1, <1>2

LEMMA StepTells == LoadingInv /\ [LoadingNext]_loadingVars => Complete
<1> SUFFICES ASSUME LoadingInv, [LoadingNext]_loadingVars PROVE Complete
  OBVIOUS
<1>1. ASSUME UNCHANGED <<ready, complete>> PROVE Complete
  BY <1>1 DEF Complete, LoadingInv, PreloaderCounted
<1>2. CASE InitLoader \/ LoadGraphics \/ SetSoundErrorHandler \/ Timeout \/ UNCHANGED loadingVars
  BY <1>1, <1>2 DEF InitLoader, LoadGraphics, SetSoundErrorHandler, Timeout, loadingVars, pre, loader
<1>3. CASE PreloaderLoad
  <2>1. LoadingInv' /\ ready = 0 /\ ready' \in Nat /\ complete' = complete
    BY <1>3, PreloaderKeeps DEF PreloaderLoad, LoadingInv, PreloaderCounted, loader
  <2>2. ready' > 0 => preloader' = 0
    BY <2>1 DEF LoadingInv, PreloaderCounted
  <2> QED BY <2>1, <2>2 DEF Complete, LoadingInv
<1>4. ASSUME NEW i \in Images, ImageLoad(i) PROVE Complete
  BY <1>4, CheckTells DEF ImageLoad, pre
<1>5. ASSUME NEW i \in Images, ImageFails(i) PROVE Complete
  BY <1>1, <1>5 DEF ImageFails, pre, loader
<1>6. ASSUME NEW format \in Formats, NEW listeners \in BOOLEAN, LoadSounds(format, listeners)
      PROVE  Complete
  BY <1>1, <1>6 DEF LoadSounds, pre, loader
<1>7. ASSUME NEW s \in Sounds, CanPlay(s) \/ SoundFails(s) PROVE Complete
  BY <1>1, <1>7 DEF CanPlay, SoundFails, pre, loader
<1>8. CASE Check
  <2>1. image' = image /\ ready' = ready
    BY <1>8 DEF Check, graphics, pre
  <2>2. CASE CheckLoaded(image)
    BY <2>1, <2>2, CheckTells
  <2> QED BY <1>1, <1>8, <2>1, <2>2 DEF Check
<1> QED BY <1>2, <1>3, <1>4, <1>5, <1>6, <1>7, <1>8 DEF LoadingNext

\* When the game is told that all is loaded, it is, however the browser orders, repeats and
\* drops its reports, and it is told once.
THEOREM ToldWhenLoaded == LoadingSpec => CompleteMeansLoaded
<1>1. LoadingInv /\ [LoadingNext]_loadingVars
        => [/\ complete' > complete =>
                 /\ complete = 0
                 /\ \A n \in Names : images_[n] > 0 => image'[images_[n]] = "loaded"
                 /\ disabled \/ total_sounds_ = 0 \/ Unloaded = {}
            /\ ready' > ready => ready = 0 /\ preloader' = 0]_loadingVars
  BY StepTells DEF Complete
<1> QED BY <1>1, LoadingStarts, LoadingStep, PTL DEF LoadingSpec, CompleteMeansLoaded
-----------------------------------------------------------------------------
(* Failures of sounds                                                      *)

Reported ==
    /\ \A s \in reported' : ~sounds_'[s].handler
    /\ reported' # reported => loaded_sounds_' >= total_sounds_
    /\ ~loading_complete /\ loading_complete' /\ on_error_ =>
         LET givenUp == IF Timeout THEN Unloaded ELSE {}
         IN  reported' = IF Cardinality(givenUp) <= 1 THEN erred' \cup givenUp ELSE givenUp

LEMMA TimeoutReports ==
    ASSUME LoadingInv, Timeout
    PROVE  /\ loaded_sounds_' >= total_sounds_
           /\ ~loading_complete /\ loading_complete' /\ on_error_ =>
                reported' = IF Cardinality(Unloaded) <= 1 THEN erred' \cup Unloaded ELSE Unloaded
<1>1. loaded_sounds_' = Cardinality(Sounds) /\ Cardinality(Sounds) \in Nat
  BY TimeoutKeeps, SettledFinite DEF LoadingInv, SoundsCounted
<1>2. loaded_sounds_' >= total_sounds_
  BY <1>1 DEF LoadingInv, SoundsStart, Timeout
<1>3. ASSUME ~loading_complete, loading_complete', on_error_
      PROVE  reported' = IF Cardinality(Unloaded) <= 1 THEN erred' \cup Unloaded ELSE Unloaded
  <2>1. ~errors_off /\ reported = {} /\ erred = errors_ /\ Unloaded # {}
    BY <1>3 DEF Timeout, LoadingInv, ErrorsDropped, ErrorsCollected
  <2>2. Cardinality(Unloaded) \in Nat /\ Cardinality(Unloaded) # 0
    <3>1. Unloaded \in SUBSET Sounds
      BY DEF Unloaded
    <3> QED BY <2>1, <3>1, SettledFinite, FS_EmptySet
  <2>3. erred' = erred /\ reported' = Unloaded \cup (IF Cardinality(Unloaded) = 1 THEN errors_ ELSE {})
    BY <1>3, <2>1 DEF Timeout
  <2> QED BY <2>1, <2>2, <2>3
<1> QED BY <1>2, <1>3

\* A call of resource_loading_finished_ outside the timeout.
LEMMA OneReports ==
    ASSUME LoadingInv, Report(errors_'), timeout' = timeout, errors_off => loading_complete,
           ~errors_off => erred' = errors_'
    PROVE  /\ reported' # reported => loaded_sounds_' >= total_sounds_
           /\ ~Timeout
           /\ ~loading_complete /\ loading_complete' /\ on_error_ => reported' = erred'
<1>1. ~Timeout
  BY DEF Timeout
<1>2. reported' # reported => loaded_sounds_' >= total_sounds_
  BY DEF Report, Reports
<1>3. ASSUME ~loading_complete, loading_complete', on_error_ PROVE reported' = erred'
  BY <1>3 DEF LoadingInv, ErrorsDropped, Report, Reports
<1> QED BY <1>1, <1>2, <1>3

LEMMA StepReports == LoadingInv /\ [LoadingNext]_loadingVars => Reported
<1> SUFFICES ASSUME LoadingInv, [LoadingNext]_loadingVars PROVE Reported
  OBVIOUS
<1>0. \A s \in reported' : ~sounds_'[s].handler
  BY LoadingStep DEF LoadingInv, ErrorsDropped
<1>1. ASSUME UNCHANGED <<loading_complete, reported>> PROVE Reported
  BY <1>0, <1>1 DEF Reported
<1>2. CASE InitLoader \/ PreloaderLoad \/ LoadGraphics \/ SetSoundErrorHandler \/ Check
           \/ UNCHANGED loadingVars
  BY <1>1, <1>2 DEF InitLoader, PreloaderLoad, LoadGraphics, SetSoundErrorHandler, Check,
     loadingVars, audio
<1>3. ASSUME NEW i \in Images, ImageLoad(i) \/ ImageFails(i) PROVE Reported
  BY <1>1, <1>3 DEF ImageLoad, ImageFails, audio
<1>4. ASSUME NEW format \in Formats, NEW listeners \in BOOLEAN, LoadSounds(format, listeners)
      PROVE  Reported
  BY <1>1, <1>4 DEF LoadSounds
<1>5. ASSUME NEW s \in Sounds, CanPlay(s) \/ SoundFails(s) PROVE Reported
  <2>1. /\ Report(errors_') /\ timeout' = timeout
        /\ errors_off => loading_complete
        /\ ~errors_off => erred' = errors_'
    BY <1>5 DEF CanPlay, SoundFails, LoadingInv, ErrorsDropped, ErrorsCollected
  <2>2. /\ reported' # reported => loaded_sounds_' >= total_sounds_
        /\ ~Timeout
        /\ ~loading_complete /\ loading_complete' /\ on_error_ => reported' = erred'
    BY <2>1, OneReports
  <2>3. Cardinality({}) = 0 /\ erred' \cup {} = erred'
    BY FS_EmptySet
  <2> DEFINE givenUp == IF Timeout THEN Unloaded ELSE {}
  <2>4. givenUp = {}
    BY <2>2
  <2> HIDE DEF givenUp
  <2>5. ~loading_complete /\ loading_complete' /\ on_error_ =>
          reported' = IF Cardinality(givenUp) <= 1 THEN erred' \cup givenUp ELSE givenUp
    BY <2>2, <2>3, <2>4
  <2> QED BY <1>0, <2>2, <2>5 DEF Reported, givenUp
<1>6. CASE Timeout
  BY <1>0, <1>6, TimeoutReports DEF Reported
<1> QED BY <1>2, <1>3, <1>4, <1>5, <1>6 DEF LoadingNext

\* When loading completes with a handler of errors set, the game is told of exactly the
\* sounds that failed and of the one given up, or, when several are given up, of these
\* alone; of none that can be played; and of nothing while a sound is under way.
THEOREM FailuresTold == LoadingSpec => FailuresReported
<1>1. LoadingInv /\ [LoadingNext]_loadingVars
        => [/\ \A s \in reported' : ~sounds_'[s].handler
            /\ reported' # reported => loaded_sounds_' >= total_sounds_
            /\ ~loading_complete /\ loading_complete' /\ on_error_ =>
                 LET givenUp == IF Timeout THEN Unloaded ELSE {}
                 IN  reported' = IF Cardinality(givenUp) <= 1 THEN erred' \cup givenUp ELSE givenUp
           ]_loadingVars
  BY StepReports DEF Reported
<1> QED BY <1>1, LoadingStarts, LoadingStep, PTL DEF LoadingSpec, FailuresReported
-----------------------------------------------------------------------------
(* Errors                                                                  *)

Balanced == handle_error_calls_ = 0 /\ ~critical_error_raised_

\* Whatever a callback does, the error flags are left as Failed or Dangling leave them.
LEMMA StepBalances ==
    [EngineNext]_engineVars /\ custom_error_handler_ /\ Balanced => Balanced'
<1> SUFFICES ASSUME [EngineNext]_engineVars, custom_error_handler_, Balanced PROVE Balanced'
  OBVIOUS
<1>1. UNCHANGED errors \/ Failed \/ Dangling => Balanced'
  BY DEF errors, Failed, Dangling, CriticalThrows, Balanced
<1>2. ASSUME NEW r \in Requests, Send(r) \/ (\E k \in Kinds : AnswerData(r, k)) \/ AnswerBad(r) \/ AnswerLost(r)
      PROVE  Balanced'
  BY <1>1, <1>2 DEF Send, AnswerData, AnswerBad, AnswerLost, errors
<1>3. CASE SetErrorHandler \/ ShiftScreens \/ RequestRedraw \/ LoseHandlers \/ TimeUp \/ Start
           \/ (\E b \in BOOLEAN : Allow(b)) \/ (\E s \in Screens : ShowScreen(s))
           \/ UNCHANGED engineVars
  BY <1>1, <1>3 DEF SetErrorHandler, ShiftScreens, RequestRedraw, LoseHandlers, TimeUp, Start,
     Allow, ShowScreen, Shown, engineVars
<1>4. CASE ReturnToPrevious \/ (\E critical \in BOOLEAN : InputFails(critical))
  BY <1>1, <1>4 DEF ReturnToPrevious, InputFails
<1>5. CASE Frame
  BY <1>1, <1>5 DEF Frame, FrameEventFails, FrameIntegrityFails, FrameDrawAsserts,
     FrameDrawFails, FrameDone, FrameFails
<1> QED BY <1>2, <1>3, <1>4, <1>5 DEF EngineNext

\* Once a handler of errors is set and no error is under way, none ever seems to be.
THEOREM ErrorsStayBalanced == EngineSpec => ErrorsBalanced
<1>1. [EngineNext]_engineVars
        => [custom_error_handler_ /\ handle_error_calls_ = 0 /\ ~critical_error_raised_
            => handle_error_calls_' = 0 /\ ~critical_error_raised_']_engineVars
  BY StepBalances DEF Balanced
<1> QED BY <1>1, PTL DEF EngineSpec, ErrorsBalanced
-----------------------------------------------------------------------------
(* Events.  A pass that fails leaves the events it ran in the queue, before those it did  *)
(* not come to: what is left to be run first is a rest of the queue.                      *)

\* The first n events of the queue have run, the others follow first in arrived.
RanUpTo(n) ==
    /\ \A i \in 1 .. n : ran[queue_[i]] > 0
    /\ \A i \in n + 1 .. Len(queue_) : ran[queue_[i]] = 0
    /\ arrived = first \o SubSeq(queue_, n + 1, Len(queue_))
    /\ n > 0 => "event" \in failures

Queued(id) == \E i \in DOMAIN queue_ : queue_[i] = id

QueueInv ==
    /\ queue_ \in Seq(Ids) /\ IsInjective(queue_)
    /\ first \in Seq(Ids)
    /\ ran \in [Ids -> 0 .. 2]
    /\ \E n \in 0 .. Len(queue_) : RanUpTo(n)
    /\ request \in [Requests -> {"unsent", "sent", "answered"}]
    /\ \A r \in Requests : request[r] # "answered" => ran[r] = 0 /\ ~Queued(r)
    /\ \A r \in Requests : ran[-r] > 0 \/ Queued(-r) => ran[r] > 0
    /\ \A id \in Ids : ran[id] > 1 => "event" \in failures

EngineInv ==
    /\ QueueInv
    /\ ~must_check_integrity_ => "integrity" \in failures
    /\ is_drawing_ => "draw" \in failures

LEMMA IdsInt == Requests \subseteq Ids /\ \A id \in Ids : id \in Int /\ id # 0 /\ (id > 0 => id \in Requests /\ -id \in Ids)
BY KindsAssumption DEF KindsAssumption, Requests, Ids

\* A pass runs the queue up to some length.
LEMMA RunsSome ==
    ASSUME QueueInv
    PROVE  /\ FailsAt \in 0 .. Len(queue_)
           /\ Runs \in Seq(Ids) /\ Len(Runs) \in 0 .. Len(queue_)
           /\ Runs = SubSeq(queue_, 1, Len(Runs))
           /\ ~can_process_events_ => FailsAt = 0 /\ Len(Runs) = 0
           /\ can_process_events_ => Len(Runs) = IF FailsAt > 0 THEN FailsAt ELSE Len(queue_)
<1> DEFINE failing == {i \in DOMAIN queue_ : EventFails(queue_[i])}
<1>0. queue_ \in Seq(Ids) /\ Len(queue_) \in Nat /\ DOMAIN queue_ = 1 .. Len(queue_)
  BY DEF QueueInv
<1>1. FailsAt \in 0 .. Len(queue_) /\ (~can_process_events_ => FailsAt = 0)
  <2>1. CASE can_process_events_ /\ failing # {}
    <3>1. failing \in SUBSET Nat /\ failing # {}
      BY <1>0, <2>1
    <3>2. \E m \in failing : \A i \in failing : m <= i
      <4> HIDE DEF failing
      <4> QED BY <3>1, LeastMember
    <3>3. Min(failing) \in failing
      BY <3>2 DEF Min
    <3>4. FailsAt = Min(failing)
      BY <2>1 DEF FailsAt
    <3> QED BY <1>0, <2>1, <3>3, <3>4
  <2>2. CASE ~(can_process_events_ /\ failing # {})
    BY <1>0, <2>2 DEF FailsAt
  <2> QED BY <2>1, <2>2
<1>2. SubSeq(queue_, 1, Len(queue_)) = queue_ /\ SubSeq(queue_, 1, 0) = <<>>
  BY <1>0, SubSeqFull, SubSeqEmpty
<1>3. ASSUME NEW m \in 0 .. Len(queue_)
      PROVE  Len(SubSeq(queue_, 1, m)) = m /\ SubSeq(queue_, 1, m) \in Seq(Ids)
  BY <1>0, <1>3
<1> HIDE DEF failing
<1>4. CASE ~can_process_events_
  BY <1>0, <1>1, <1>2, <1>4 DEF Runs
<1>5. CASE can_process_events_ /\ FailsAt > 0
  <2>1. Runs = SubSeq(queue_, 1, FailsAt)
    BY <1>5 DEF Runs
  <2> QED BY <1>0, <1>1, <1>3, <1>5, <2>1
<1>6. CASE can_process_events_ /\ ~(FailsAt > 0)
  <2>1. Runs = queue_
    BY <1>6 DEF Runs
  <2> QED BY <1>0, <1>1, <1>2, <1>6, <2>1
<1> QED BY <1>4, <1>5, <1>6

\* What a pass pushes is new, and nothing twice.
LEMMA PushesNew ==
    ASSUME QueueInv
    PROVE  /\ Pushed \in Seq(Ids) /\ IsInjective(Pushed)
           /\ \A k \in 1 .. Len(Pushed) :
                /\ ran[Pushed[k]] = 0 /\ ~Queued(Pushed[k])
                /\ -Pushed[k] \in Requests /\ ran[-Pushed[k]] = 0
                /\ \E i \in 1 .. Len(Runs) : -Pushed[k] = Runs[i] /\ -Pushed[k] = queue_[i]
<1> DEFINE S == {id \in New : KindOf(id) = "more"}
           more == Those(Runs, S)
<1>1. Runs \in Seq(Ids) /\ Len(Runs) \in 0 .. Len(queue_) /\ Runs = SubSeq(queue_, 1, Len(Runs))
  BY RunsSome
<1>2. queue_ \in Seq(Ids) /\ DOMAIN queue_ = 1 .. Len(queue_)
  BY DEF QueueInv
<1>3. \A i \in 1 .. Len(Runs) : Runs[i] = queue_[i]
  BY <1>1, <1>2
<1>4. \A i, j \in 1 .. Len(Runs) : Runs[i] = Runs[j] => i = j
  <2> SUFFICES ASSUME NEW i \in 1 .. Len(Runs), NEW j \in 1 .. Len(Runs), Runs[i] = Runs[j]
               PROVE  i = j
    OBVIOUS
  <2>1. i \in DOMAIN queue_ /\ j \in DOMAIN queue_
    BY <1>1, <1>2
  <2>2. queue_[i] = queue_[j]
    BY <1>3
  <2> QED BY <2>1, <2>2 DEF QueueInv, IsInjective
<1>5. /\ more \in Seq(Ids)
      /\ \A m \in 1 .. Len(more) : more[m] \in S /\ \E i \in 1 .. Len(Runs) : more[m] = Runs[i]
      /\ \A l, m \in 1 .. Len(more) : more[l] = more[m] => l = m
  BY <1>1, <1>4, ThoseAmong
<1>6. Pushed = [i \in DOMAIN more |-> -more[i]]
  BY DEF Pushed
<1>7. ASSUME NEW m \in 1 .. Len(more)
      PROVE  more[m] \in Requests /\ more[m] \in Int /\ ran[more[m]] = 0 /\ -more[m] \in Ids
  <2>1. more[m] \in New /\ KindOf(more[m]) = "more"
    BY <1>5
  <2>2. more[m] \in Ids /\ ran[more[m]] = 0 /\ more[m] > 0
    BY <2>1 DEF New, KindOf
  <2> QED BY <2>2, IdsInt
<1> HIDE DEF more, S
<1>8. DOMAIN more = 1 .. Len(more) /\ Len(more) \in Nat
  BY <1>5
<1>9. Pushed \in Seq(Ids) /\ Len(Pushed) = Len(more)
  BY <1>6, <1>7, <1>8
<1>10. IsInjective(Pushed)
  BY <1>5, <1>6, <1>7, <1>8 DEF IsInjective
<1>11. ASSUME NEW k \in 1 .. Len(Pushed)
       PROVE  /\ ran[Pushed[k]] = 0 /\ ~Queued(Pushed[k])
              /\ -Pushed[k] \in Requests /\ ran[-Pushed[k]] = 0
              /\ \E i \in 1 .. Len(Runs) : -Pushed[k] = Runs[i] /\ -Pushed[k] = queue_[i]
  <2>1. k \in 1 .. Len(more) /\ Pushed[k] = -more[k]
    BY <1>6, <1>8, <1>9
  <2>2. PICK r : r = more[k]
    OBVIOUS
  <2>3. r \in Requests /\ r \in Int /\ ran[r] = 0 /\ -r \in Ids /\ Pushed[k] = -r /\ -(-r) = r
    BY <1>7, <2>1, <2>2
  <2>4. ~(ran[-r] > 0) /\ ~Queued(-r) /\ ran[-r] \in 0 .. 2
    BY <2>3 DEF QueueInv
  <2>5. PICK i \in 1 .. Len(Runs) : r = Runs[i]
    BY <1>5, <2>1, <2>2
  <2> QED BY <1>3, <2>3, <2>4, <2>5
<1> QED BY <1>9, <1>10, <1>11

\* The queue after a push.
LEMMA PushedQueue ==
    ASSUME QueueInv, NEW p \in Seq(Ids), IsInjective(p), \A k \in 1 .. Len(p) : ~Queued(p[k])
    PROVE  /\ queue_ \o p \in Seq(Ids) /\ IsInjective(queue_ \o p)
           /\ Len(queue_ \o p) = Len(queue_) + Len(p)
           /\ \A i \in 1 .. Len(queue_) : (queue_ \o p)[i] = queue_[i]
           /\ \A i \in Len(queue_) + 1 .. Len(queue_ \o p) :
                i - Len(queue_) \in 1 .. Len(p) /\ (queue_ \o p)[i] = p[i - Len(queue_)]
<1> DEFINE u == queue_ \o p
<1>1. queue_ \in Seq(Ids) /\ Len(queue_) \in Nat /\ Len(p) \in Nat
  BY DEF QueueInv
<1>0. /\ \A i, j \in 1 .. Len(queue_) : queue_[i] = queue_[j] => i = j
      /\ \A i, j \in 1 .. Len(p) : p[i] = p[j] => i = j
      /\ \A i \in 1 .. Len(queue_), j \in 1 .. Len(p) : queue_[i] # p[j]
  BY <1>1 DEF QueueInv, IsInjective, Queued
<1>2. /\ u \in Seq(Ids) /\ Len(u) = Len(queue_) + Len(p)
      /\ \A i \in 1 .. Len(queue_) + Len(p) :
           u[i] = IF i <= Len(queue_) THEN queue_[i] ELSE p[i - Len(queue_)]
  BY <1>1, ConcatProperties
<1> HIDE DEF u
<1>3. \A i \in 1 .. Len(queue_) : u[i] = queue_[i]
  BY <1>1, <1>2
<1>4. \A i \in Len(queue_) + 1 .. Len(u) :
        i - Len(queue_) \in 1 .. Len(p) /\ u[i] = p[i - Len(queue_)]
  BY <1>1, <1>2
<1>5. ASSUME NEW i \in 1 .. Len(u), NEW j \in 1 .. Len(u), u[i] = u[j]
      PROVE  i = j
  <2>1. CASE i <= Len(queue_) /\ j <= Len(queue_)
    BY <1>0, <1>1, <1>3, <1>5, <2>1
  <2>2. CASE i > Len(queue_) /\ j > Len(queue_)
    <3>1. /\ i - Len(queue_) \in 1 .. Len(p) /\ j - Len(queue_) \in 1 .. Len(p)
          /\ p[i - Len(queue_)] = p[j - Len(queue_)]
      BY <1>1, <1>2, <1>4, <1>5, <2>2
    <3>2. i - Len(queue_) = j - Len(queue_)
      BY <1>0, <3>1
    <3> QED BY <1>1, <3>2
  <2>3. CASE i <= Len(queue_) /\ j > Len(queue_)
    <3>1. /\ i \in 1 .. Len(queue_) /\ u[i] = queue_[i]
          /\ j - Len(queue_) \in 1 .. Len(p) /\ u[j] = p[j - Len(queue_)]
      BY <1>1, <1>2, <1>3, <1>4, <2>3
    <3> QED BY <1>0, <1>5, <3>1
  <2>4. CASE i > Len(queue_) /\ j <= Len(queue_)
    <3>1. /\ j \in 1 .. Len(queue_) /\ u[j] = queue_[j]
          /\ i - Len(queue_) \in 1 .. Len(p) /\ u[i] = p[i - Len(queue_)]
      BY <1>1, <1>2, <1>3, <1>4, <2>4
    <3> QED BY <1>0, <1>5, <3>1
  <2> QED BY <1>1, <2>1, <2>2, <2>3, <2>4
<1>6. IsInjective(u)
  BY <1>2, <1>5 DEF IsInjective
<1> QED BY <1>2, <1>3, <1>4, <1>6 DEF u

In(s, id) == \E i \in 1 .. Len(s) : s[i] = id

\* What a pass runs: what it finds in the queue, and what that pushes.
LEMMA AllOf ==
    ASSUME QueueInv
    PROVE  /\ All \in Seq(Ids)
           /\ \A id : In(All, id) => In(Runs, id) \/ In(Pushed, id)
           /\ \A id : In(Runs, id) => In(All, id) /\ \E i \in 1 .. Len(Runs) : queue_[i] = id
           /\ FailsAt > 0 \/ ~can_process_events_ => All = Runs
           /\ FailsAt = 0 /\ can_process_events_ => All = queue_ \o Pushed
<1>1. /\ Runs \in Seq(Ids) /\ Pushed \in Seq(Ids)
      /\ Runs = SubSeq(queue_, 1, Len(Runs)) /\ Len(Runs) \in 0 .. Len(queue_)
      /\ queue_ \in Seq(Ids) /\ FailsAt \in 0 .. Len(queue_)
      /\ ~can_process_events_ => Len(Runs) = 0 /\ FailsAt = 0
  BY RunsSome, PushesNew DEF QueueInv
<1>2. Runs \o Pushed \in Seq(Ids) /\ Len(Runs \o Pushed) = Len(Runs) + Len(Pushed)
      /\ \A i \in 1 .. Len(Runs) + Len(Pushed) :
           (Runs \o Pushed)[i] = IF i <= Len(Runs) THEN Runs[i] ELSE Pushed[i - Len(Runs)]
  BY <1>1, ConcatProperties
<1>3. \A i \in 1 .. Len(Runs) : Runs[i] = queue_[i]
  BY <1>1
<1>4. FailsAt = 0 /\ can_process_events_ => Runs = queue_
  BY <1>1 DEF Runs
<1>5. ~can_process_events_ => Pushed = <<>> /\ Runs = <<>>
  <2>1. ASSUME ~can_process_events_, NEW k \in 1 .. Len(Pushed)
        PROVE  FALSE
    <3>1. \E i \in 1 .. Len(Runs) : -Pushed[k] = Runs[i]
      BY <2>1, PushesNew
    <3>2. Len(Runs) = 0
      BY <1>1, <2>1
    <3> QED BY <3>1, <3>2
  <2>2. ~can_process_events_ => Len(Pushed) = 0
    BY <1>1, <2>1
  <2> QED BY <1>1, <2>2
<1>6. CASE FailsAt > 0 \/ ~can_process_events_
  <2>1. All = Runs
    <3>1. CASE FailsAt > 0
      BY <3>1 DEF All
    <3>2. CASE ~can_process_events_
      BY <1>5, <3>2 DEF All
    <3> QED BY <1>6, <3>1, <3>2
  <2>2. ~(FailsAt = 0 /\ can_process_events_)
    BY <1>1, <1>6
  <2> QED BY <1>1, <1>3, <2>1, <2>2 DEF In
<1>7. CASE ~(FailsAt > 0 \/ ~can_process_events_)
  <2>1. All = Runs \o Pushed /\ FailsAt = 0 /\ can_process_events_
    <3>1. FailsAt = 0
      BY <1>1, <1>7
    <3>2. ~(FailsAt > 0) /\ can_process_events_
      BY <1>7
    <3>3. All = Runs \o Pushed
      BY <3>2 DEF All
    <3> QED BY <3>1, <3>2, <3>3
  <2>2. Runs = queue_
    BY <1>4, <2>1
  <2>3. PICK u : u = Runs \o Pushed
    OBVIOUS
  <2>4. /\ u \in Seq(Ids) /\ Len(u) = Len(Runs) + Len(Pushed)
        /\ Len(Runs) \in Nat /\ Len(Pushed) \in Nat
        /\ \A i \in 1 .. Len(u) : u[i] = IF i <= Len(Runs) THEN Runs[i] ELSE Pushed[i - Len(Runs)]
    BY <1>1, <1>2, <2>3
  <2>5. ASSUME NEW id, In(u, id)
        PROVE  In(Runs, id) \/ In(Pushed, id)
    <3>1. PICK i \in 1 .. Len(u) : u[i] = id
      BY <2>5 DEF In
    <3>2. CASE i <= Len(Runs)
      BY <2>4, <3>1, <3>2 DEF In
    <3>3. CASE ~(i <= Len(Runs))
      <4>1. i - Len(Runs) \in 1 .. Len(Pushed) /\ Pushed[i - Len(Runs)] = id
        BY <2>4, <3>1, <3>3
      <4> QED BY <4>1 DEF In
    <3> QED BY <3>2, <3>3
  <2>6. ASSUME NEW id, In(Runs, id)
        PROVE  In(u, id)
    <3>1. PICK i \in 1 .. Len(Runs) : Runs[i] = id
      BY <2>6 DEF In
    <3>2. i \in 1 .. Len(u) /\ u[i] = id
      BY <2>4, <3>1
    <3> QED BY <3>2 DEF In
  <2>7. \A id : In(Runs, id) => \E i \in 1 .. Len(Runs) : queue_[i] = id
    BY <1>3 DEF In
  <2>8. All = u
    BY <2>1, <2>3
  <2>9. ~(FailsAt > 0) /\ (FailsAt = 0 /\ can_process_events_ => All = queue_ \o Pushed)
    BY <1>1, <2>1, <2>2
  <2> QED BY <2>1, <2>4, <2>5, <2>6, <2>7, <2>8, <2>9
<1> QED BY <1>6, <1>7

LEMMA RanMore ==
    ASSUME NEW k \in 0 .. 2
    PROVE  Min({2, k + 1}) \in 1 .. 2 /\ (k = 0 => Min({2, k + 1}) = 1)
<1> DEFINE S == {2, k + 1}
<1>1. PICK m \in S : \A j \in S : m <= j
  OBVIOUS
<1>2. Min(S) \in S /\ \A j \in S : Min(S) <= j
  BY <1>1 DEF Min
<1> QED BY <1>2

LEMMA RanThen ==
    ASSUME QueueInv, RunEvents
    PROVE  /\ ran' \in [Ids -> 0 .. 2]
           /\ \A id \in Ids : /\ In(All, id) => ran'[id] > 0 /\ (ran[id] = 0 => ran'[id] = 1)
                              /\ ~In(All, id) => ran'[id] = ran[id]
                              /\ ran[id] > 0 => ran'[id] > 0
<1>1. All \in Seq(Ids) /\ ran \in [Ids -> 0 .. 2]
  BY AllOf DEF QueueInv
<1>2. \A id : id \in ToSet(All) <=> In(All, id)
  BY <1>1 DEF ToSet, In
<1>3. ran' = [id \in Ids |-> IF id \in ToSet(All) THEN Min({2, ran[id] + 1}) ELSE ran[id]]
  BY DEF RunEvents
<1>4. ASSUME NEW id \in Ids
      PROVE  /\ ran'[id] \in 0 .. 2
             /\ In(All, id) => ran'[id] > 0 /\ (ran[id] = 0 => ran'[id] = 1)
             /\ ~In(All, id) => ran'[id] = ran[id]
             /\ ran[id] > 0 => ran'[id] > 0
  <2>1. PICK k \in 0 .. 2 : k = ran[id]
    BY <1>1
  <2>2. PICK l \in 1 .. 2 : l = Min({2, ran[id] + 1}) /\ (k = 0 => l = 1)
    BY <2>1, RanMore
  <2>3. ran'[id] = IF In(All, id) THEN l ELSE k
    BY <1>2, <1>3, <2>1, <2>2
  <2> QED BY <2>1, <2>2, <2>3
<1> QED BY <1>3, <1>4

LEMMA NewIs == \A id : id \in New <=> id \in Ids /\ ran[id] = 0
BY DEF New

\* The part of the pass that ran for the first time.
LEMMA FirstOfRuns ==
    ASSUME QueueInv, NEW n \in 0 .. Len(queue_), RanUpTo(n)
    PROVE  Those(Runs, New) = IF Len(Runs) <= n THEN <<>> ELSE SubSeq(queue_, n + 1, Len(Runs))
<1>1. /\ Runs \in Seq(Ids) /\ Len(Runs) \in 0 .. Len(queue_) /\ queue_ \in Seq(Ids)
      /\ Runs = SubSeq(queue_, 1, Len(Runs))
  BY RunsSome DEF QueueInv
<1>2. \A i \in 1 .. Len(Runs) : Runs[i] = queue_[i] /\ Runs[i] \in Ids
  BY <1>1
<1>3. \A i \in 1 .. Len(Runs) : IF i <= n THEN Runs[i] \notin New ELSE Runs[i] \in New
  <2> SUFFICES ASSUME NEW i \in 1 .. Len(Runs)
               PROVE  IF i <= n THEN Runs[i] \notin New ELSE Runs[i] \in New
    OBVIOUS
  <2>1. Runs[i] = queue_[i] /\ Runs[i] \in Ids
    BY <1>2
  <2>2. CASE i <= n
    <3>1. ran[queue_[i]] > 0
      BY <1>1, <2>2 DEF RanUpTo
    <3> QED BY <2>1, <2>2, <3>1, NewIs
  <2>3. CASE ~(i <= n)
    <3>1. ran[queue_[i]] = 0
      BY <1>1, <2>3 DEF RanUpTo
    <3> QED BY <2>1, <2>3, <3>1, NewIs
  <2> QED BY <2>2, <2>3
<1>4. CASE Len(Runs) <= n
  <2>1. Those(Runs, New) = SubSeq(Runs, Len(Runs) + 1, Len(Runs))
    <3>1. \A i \in 1 .. Len(Runs) : Runs[i] \notin New
      BY <1>1, <1>3, <1>4
    <3>2. \A i \in Len(Runs) + 1 .. Len(Runs) : Runs[i] \in New
      BY <1>1
    <3>3. Len(Runs) \in 0 .. Len(Runs)
      BY <1>1
    <3> QED BY <1>1, <3>1, <3>2, <3>3, ThoseRest
  <2>2. SubSeq(Runs, Len(Runs) + 1, Len(Runs)) = <<>>
    BY <1>1, SubSeqEmpty
  <2> QED BY <1>4, <2>1, <2>2
<1>5. CASE ~(Len(Runs) <= n)
  <2>1. n \in 0 .. Len(Runs)
    BY <1>1, <1>5
  <2>2. Those(Runs, New) = SubSeq(Runs, n + 1, Len(Runs))
    <3>1. \A i \in 1 .. n : Runs[i] \notin New
      BY <1>3, <2>1
    <3>2. \A i \in n + 1 .. Len(Runs) : Runs[i] \in New
      BY <1>3, <2>1
    <3> QED BY <1>1, <2>1, <3>1, <3>2, ThoseRest
  <2>3. SubSeq(Runs, n + 1, Len(Runs)) = SubSeq(queue_, n + 1, Len(Runs))
    <3> DEFINE a == SubSeq(Runs, n + 1, Len(Runs))
               b == SubSeq(queue_, n + 1, Len(Runs))
    <3>1. /\ a \in Seq(Ids) /\ Len(a) = Len(Runs) - n
          /\ \A i \in 1 .. Len(Runs) - n : a[i] = Runs[n + i]
      <4>1. Runs \in Seq(Ids) /\ n \in 0 .. Len(Runs) /\ Len(Runs) \in n .. Len(Runs)
        BY <1>1, <2>1
      <4> QED BY <4>1, Rest
    <3>2. /\ b \in Seq(Ids) /\ Len(b) = Len(Runs) - n
          /\ \A i \in 1 .. Len(Runs) - n : b[i] = queue_[n + i]
      <4>1. queue_ \in Seq(Ids) /\ Len(Runs) \in n .. Len(queue_)
        BY <1>1, <2>1
      <4> QED BY <4>1, Rest
    <3> HIDE DEF a, b
    <3>3. Len(a) = Len(b) /\ \A i \in 1 .. Len(a) : a[i] = b[i]
      <4>1. ASSUME NEW i \in 1 .. Len(Runs) - n PROVE a[i] = b[i]
        <5>1. n + i \in 1 .. Len(Runs)
          BY <1>1, <2>1
        <5>2. Runs[n + i] = queue_[n + i]
          BY <1>2, <5>1
        <5> QED BY <3>1, <3>2, <5>2
      <4> QED BY <3>1, <3>2, <4>1
    <3>4. a = b
      BY <3>1, <3>2, <3>3, SeqEqual
    <3> QED BY <3>4 DEF a, b
  <2> QED BY <1>5, <2>2, <2>3
<1> QED BY <1>4, <1>5

\* A pass that leaves the queue as it is, with what it pushed behind.
LEMMA PassLeaves ==
    ASSUME QueueInv, RunEvents, NEW n \in 0 .. Len(queue_), RanUpTo(n),
           FailsAt > 0 \/ ~can_process_events_,
           FailsAt > 0 => "event" \in failures', failures \subseteq failures'
    PROVE  \E k \in 0 .. Len(queue_') : RanUpTo(k)'
<1> DEFINE k == IF Len(Runs) <= n THEN n ELSE Len(Runs)
           f == Those(Runs, New)
<1>1. /\ queue_ \in Seq(Ids) /\ Len(queue_) \in Nat /\ first \in Seq(Ids)
      /\ Runs \in Seq(Ids) /\ Len(Runs) \in 0 .. Len(queue_)
      /\ Runs = SubSeq(queue_, 1, Len(Runs))
      /\ ~can_process_events_ => FailsAt = 0 /\ Len(Runs) = 0
      /\ Pushed \in Seq(Ids) /\ IsInjective(Pushed)
      /\ \A i \in 1 .. Len(Pushed) : ran[Pushed[i]] = 0 /\ ~Queued(Pushed[i])
  BY RunsSome, PushesNew DEF QueueInv
<1>2. All = Runs
  BY AllOf
<1>3. queue_' = queue_ \o Pushed
  <2>1. CASE can_process_events_ /\ FailsAt > 0
    BY <2>1 DEF RunEvents, Left
  <2>2. CASE ~can_process_events_
    <3>1. queue_' = queue_
      BY <2>2 DEF RunEvents, Left
    <3>2. Pushed = <<>>
      <4>1. ASSUME NEW i \in 1 .. Len(Pushed) PROVE FALSE
        <5>1. \E j \in 1 .. Len(Runs) : -Pushed[i] = Runs[j]
          BY PushesNew
        <5> QED BY <1>1, <2>2, <5>1
      <4>2. Len(Pushed) = 0
        BY <1>1, <4>1
      <4> QED BY <1>1, <4>2
    <3> QED BY <1>1, <3>1, <3>2, ConcatEmptySeq
  <2>3. FailsAt > 0 => can_process_events_
    BY <1>1
  <2> QED BY <2>1, <2>2, <2>3
<1>4. /\ queue_' \in Seq(Ids) /\ Len(queue_') = Len(queue_) + Len(Pushed)
      /\ \A i \in 1 .. Len(queue_) : queue_'[i] = queue_[i]
      /\ \A i \in Len(queue_) + 1 .. Len(queue_') :
           i - Len(queue_) \in 1 .. Len(Pushed) /\ queue_'[i] = Pushed[i - Len(queue_)]
  BY <1>1, <1>3, PushedQueue
<1>5. k \in 0 .. Len(queue_) /\ k \in 0 .. Len(queue_')
  BY <1>1, <1>4
<1>6. \A i \in 1 .. k : ran'[queue_'[i]] > 0
  <2> SUFFICES ASSUME NEW i \in 1 .. k PROVE ran'[queue_'[i]] > 0
    OBVIOUS
  <2>1. queue_'[i] = queue_[i] /\ queue_[i] \in Ids
    BY <1>1, <1>4, <1>5
  <2>2. CASE i <= n
    <3>1. ran[queue_[i]] > 0
      BY <1>1, <2>2 DEF RanUpTo
    <3> QED BY <2>1, <3>1, RanThen
  <2>3. CASE ~(i <= n)
    <3>1. i \in 1 .. Len(Runs)
      BY <1>1, <2>3
    <3>2. Runs[i] = queue_[i]
      BY <1>1, <3>1
    <3>3. In(All, queue_[i])
      BY <1>2, <3>1, <3>2 DEF In
    <3> QED BY <2>1, <3>3, RanThen
  <2> QED BY <2>2, <2>3
<1>7. \A i \in k + 1 .. Len(queue_') : ran'[queue_'[i]] = 0
  <2> SUFFICES ASSUME NEW i \in k + 1 .. Len(queue_') PROVE ran'[queue_'[i]] = 0
    OBVIOUS
  <2>1. PICK id \in Ids : id = queue_'[i]
    BY <1>4, <1>5
  <2>2. ran[id] = 0 /\ ~In(Runs, id)
    <3>1. CASE i <= Len(queue_)
      <4>1. i \in 1 .. Len(queue_) /\ id = queue_[i] /\ i \in n + 1 .. Len(queue_)
            /\ i > Len(Runs)
        BY <1>1, <1>4, <1>5, <2>1, <3>1
      <4>2. ran[id] = 0
        BY <4>1 DEF RanUpTo
      <4>3. ASSUME In(Runs, id) PROVE FALSE
        <5>1. PICK j \in 1 .. Len(Runs) : queue_[j] = id
          BY <4>3, AllOf
        <5>2. j \in DOMAIN queue_ /\ i \in DOMAIN queue_ /\ queue_[j] = queue_[i]
          BY <1>1, <4>1, <5>1
        <5>3. i = j
          BY <5>2 DEF QueueInv, IsInjective
        <5> QED BY <1>1, <4>1, <5>1, <5>3
      <4> QED BY <4>2, <4>3
    <3>2. CASE ~(i <= Len(queue_))
      <4>1. i - Len(queue_) \in 1 .. Len(Pushed) /\ id = Pushed[i - Len(queue_)]
        BY <1>1, <1>4, <1>5, <2>1, <3>2
      <4>2. ran[id] = 0 /\ ~Queued(id)
        BY <1>1, <4>1
      <4>3. ASSUME In(Runs, id) PROVE FALSE
        <5>1. PICK j \in 1 .. Len(Runs) : queue_[j] = id
          BY <4>3, AllOf
        <5>2. j \in DOMAIN queue_
          BY <1>1, <5>1
        <5> QED BY <4>2, <5>1, <5>2 DEF Queued
      <4> QED BY <4>2, <4>3
    <3> QED BY <3>1, <3>2
  <2> QED BY <1>2, <2>1, <2>2, RanThen
<1>8. arrived' = first' \o SubSeq(queue_', k + 1, Len(queue_'))
  <2> DEFINE a == SubSeq(queue_, k + 1, Len(queue_))
             b == SubSeq(queue_, n + 1, Len(queue_))
  <2>1. SubSeq(queue_', k + 1, Len(queue_')) = a \o Pushed
    BY <1>1, <1>3, <1>5, RestPushed
  <2>2. arrived' = (first \o b) \o Pushed /\ first' = first \o f
    BY <1>2 DEF RunEvents, RanUpTo
  <2>3. a \in Seq(Ids) /\ b \in Seq(Ids) /\ f \in Seq(Ids) /\ b = f \o a
    <3>1. a \in Seq(Ids) /\ b \in Seq(Ids)
      BY <1>1, <1>5, Rest
    <3>2. CASE Len(Runs) <= n
      <4>1. f = <<>> /\ a = b
        BY <3>2, FirstOfRuns
      <4> HIDE DEF f, a, b
      <4> QED BY <3>1, <4>1, ConcatEmptySeq
    <3>3. CASE ~(Len(Runs) <= n)
      <4>1. f = SubSeq(queue_, n + 1, Len(Runs)) /\ k = Len(Runs) /\ Len(Runs) \in n .. Len(queue_)
        BY <1>1, <3>3, FirstOfRuns
      <4>2. b = f \o a
        BY <1>1, <4>1, RestSplit
      <4>3. f \in Seq(Ids)
        BY <1>1, <4>1, Rest
      <4> QED BY <3>1, <4>2, <4>3
    <3> QED BY <3>2, <3>3
  <2> HIDE DEF a, b, f
  <2>4. (first \o (f \o a)) \o Pushed = (first \o f) \o (a \o Pushed)
    <3>0. first \in Seq(Ids) /\ f \in Seq(Ids) /\ a \in Seq(Ids) /\ Pushed \in Seq(Ids)
      BY <1>1, <2>3
    <3>1. FourJoin(first, f, a, Pushed)
      BY <3>0, FourParts
    <3> QED BY <3>1, Zenon DEF FourJoin
  <2> QED BY <2>1, <2>2, <2>3, <2>4
<1>9. k > 0 => "event" \in failures'
  <2>1. CASE Len(Runs) <= n
    BY <2>1 DEF RanUpTo
  <2>2. CASE ~(Len(Runs) <= n)
    BY <1>1, <2>2
  <2> QED BY <2>1, <2>2
<1> HIDE DEF k
<1> QED BY <1>5, <1>6, <1>7, <1>8, <1>9 DEF RanUpTo

\* A pass that empties the queue.
LEMMA PassEmpties ==
    ASSUME QueueInv, RunEvents, NEW n \in 0 .. Len(queue_), RanUpTo(n),
           FailsAt = 0, can_process_events_
    PROVE  RanUpTo(0)' /\ queue_' = <<>>
<1> DEFINE b == SubSeq(queue_, n + 1, Len(queue_))
<1>1. /\ queue_ \in Seq(Ids) /\ Len(queue_) \in Nat /\ first \in Seq(Ids)
      /\ Pushed \in Seq(Ids) /\ IsInjective(Pushed)
      /\ \A i \in 1 .. Len(Pushed) : ran[Pushed[i]] = 0 /\ ~Queued(Pushed[i])
  BY PushesNew DEF QueueInv
<1>2. PICK u : u = queue_ \o Pushed
  OBVIOUS
<1>3. All = u
  BY <1>2, AllOf
<1>4. /\ u \in Seq(Ids) /\ Len(u) = Len(queue_) + Len(Pushed)
      /\ \A i \in 1 .. Len(queue_) : u[i] = queue_[i]
      /\ \A i \in Len(queue_) + 1 .. Len(u) :
           i - Len(queue_) \in 1 .. Len(Pushed) /\ u[i] = Pushed[i - Len(queue_)]
  BY <1>1, <1>2, PushedQueue
<1>5. \A i \in 1 .. n : u[i] \notin New
  <2> SUFFICES ASSUME NEW i \in 1 .. n PROVE u[i] \notin New
    OBVIOUS
  <2>1. u[i] = queue_[i] /\ ran[queue_[i]] > 0
    <3>1. i \in 1 .. Len(queue_) /\ ran[queue_[i]] > 0
      BY <1>1 DEF RanUpTo
    <3> QED BY <1>4, <3>1
  <2> QED BY <2>1, NewIs
<1>6. \A i \in n + 1 .. Len(u) : u[i] \in New
  <2> SUFFICES ASSUME NEW i \in n + 1 .. Len(u) PROVE u[i] \in New
    OBVIOUS
  <2>0. u[i] \in Ids
    BY <1>4
  <2>1. CASE i <= Len(queue_)
    <3>1. u[i] = queue_[i] /\ ran[queue_[i]] = 0
      BY <1>1, <1>4, <2>1 DEF RanUpTo
    <3> QED BY <2>0, <3>1, NewIs
  <2>2. CASE ~(i <= Len(queue_))
    <3>1. i - Len(queue_) \in 1 .. Len(Pushed) /\ u[i] = Pushed[i - Len(queue_)]
      BY <1>1, <1>4, <2>2
    <3>2. ran[u[i]] = 0
      BY <1>1, <3>1
    <3> QED BY <2>0, <3>2, NewIs
  <2> QED BY <2>1, <2>2
<1>7. Those(u, New) = SubSeq(u, n + 1, Len(u))
  <2>1. n \in 0 .. Len(u)
    BY <1>1, <1>4
  <2> QED BY <1>4, <1>5, <1>6, <2>1, ThoseRest
<1>8. SubSeq(u, n + 1, Len(u)) = b \o Pushed
  BY <1>1, <1>2, RestPushed
<1>9. first' = first \o (b \o Pushed) /\ arrived' = (first \o b) \o Pushed
  BY <1>3, <1>7, <1>8 DEF RunEvents, RanUpTo
<1>10. b \in Seq(Ids)
  BY <1>1, Rest
<1> HIDE DEF b
<1>11. arrived' = first' /\ first' \in Seq(Ids)
  <2>1. ThreeJoin(first, b, Pushed)
    BY <1>1, <1>10, ThreeParts
  <2>2. b \o Pushed \in Seq(Ids)
    BY <1>1, <1>10, ConcatProperties
  <2>3. PICK c \in Seq(Ids) : c = b \o Pushed
    BY <2>2
  <2>4. first \o c \in Seq(Ids)
    BY <1>1, ConcatProperties
  <2>5. arrived' = first'
    BY <1>9, <2>1, Zenon DEF ThreeJoin
  <2> QED BY <1>9, <2>3, <2>4, <2>5
<1>12. queue_' = <<>>
  BY DEF RunEvents, Left
<1>13. SubSeq(queue_', 0 + 1, Len(queue_')) = <<>> /\ Len(queue_') = 0
  BY <1>12
<1>14. arrived' = first' \o SubSeq(queue_', 0 + 1, Len(queue_'))
  BY <1>11, <1>13, ConcatEmptySeq
<1> QED BY <1>12, <1>13, <1>14 DEF RanUpTo

\* What runs for the first time is a sequence of events.
LEMMA FirstTyped ==
    ASSUME QueueInv, RunEvents
    PROVE  first' \in Seq(Ids)
<1>1. All \in Seq(Ids) /\ first \in Seq(Ids)
  BY AllOf DEF QueueInv
<1>2. PICK g : Finds(g, All, New, Len(All)) /\ Those(All, New) = g[Len(All)]
  BY <1>1, ThoseFound
<1> DEFINE P == {k \in Nat : k <= Len(All) => g[k] \in Seq(Ids)}
<1>3. 0 \in P
  <2>1. g[0] = <<>> /\ <<>> \in Seq(Ids)
    BY <1>1, <1>2, FindsStart
  <2> QED BY <2>1
<1>4. ASSUME NEW k \in Nat, k \in P
      PROVE  k + 1 \in P
  <2> SUFFICES ASSUME k + 1 <= Len(All) PROVE g[k + 1] \in Seq(Ids)
    OBVIOUS
  <2>1. g[k + 1] = IF All[k + 1] \in New THEN Append(g[k], All[k + 1]) ELSE g[k]
    BY <1>1, <1>2, FindsNext
  <2>2. PICK t \in Seq(Ids) : t = g[k]
    BY <1>1, <1>4
  <2>3. PICK id \in Ids : id = All[k + 1]
    BY <1>1
  <2>4. Append(t, id) \in Seq(Ids)
    OBVIOUS
  <2> QED BY <2>1, <2>2, <2>3, <2>4
<1>5. Nat \subseteq P
  <2> HIDE DEF P
  <2> QED BY <1>3, <1>4, Induction
<1>6. Those(All, New) \in Seq(Ids)
  BY <1>1, <1>2, <1>5
<1> QED BY <1>1, <1>6, ConcatProperties DEF RunEvents

LEMMA PassKeeps ==
    ASSUME QueueInv, RunEvents, UNCHANGED request,
           FailsAt > 0 => "event" \in failures', failures \subseteq failures'
    PROVE  QueueInv'
<1>1. PICK n \in 0 .. Len(queue_) : RanUpTo(n)
  BY DEF QueueInv
<1>2. queue_ \in Seq(Ids) /\ Pushed \in Seq(Ids) /\ FailsAt \in 0 .. Len(queue_)
  BY RunsSome, PushesNew DEF QueueInv
<1>3. queue_' = queue_ \o Pushed \/ queue_' = <<>> \/ queue_' = queue_
  BY DEF RunEvents, Left
<1>4. queue_' \in Seq(Ids) /\ IsInjective(queue_')
      /\ \A id : Queued(id)' => Queued(id) \/ In(Pushed, id)
  <2>1. CASE queue_' = queue_ \o Pushed
    <3>1. PICK u : u = queue_ \o Pushed
      OBVIOUS
    <3>2. /\ u \in Seq(Ids) /\ IsInjective(u)
          /\ \A i \in 1 .. Len(queue_) : u[i] = queue_[i]
          /\ \A i \in Len(queue_) + 1 .. Len(u) :
               i - Len(queue_) \in 1 .. Len(Pushed) /\ u[i] = Pushed[i - Len(queue_)]
      BY <1>2, <3>1, PushesNew, PushedQueue
    <3>3. ASSUME NEW id, Queued(id)' PROVE Queued(id) \/ In(Pushed, id)
      <4>1. PICK i \in 1 .. Len(u) : u[i] = id
        BY <2>1, <3>1, <3>2, <3>3 DEF Queued
      <4>2. CASE i <= Len(queue_)
        <5>1. i \in DOMAIN queue_ /\ queue_[i] = id
          BY <1>2, <3>2, <4>1, <4>2
        <5> QED BY <5>1 DEF Queued
      <4>3. CASE ~(i <= Len(queue_))
        <5>1. i - Len(queue_) \in 1 .. Len(Pushed) /\ Pushed[i - Len(queue_)] = id
          BY <1>2, <3>2, <4>1, <4>3
        <5> QED BY <5>1 DEF In
      <4> QED BY <4>2, <4>3
    <3> QED BY <2>1, <3>1, <3>2, <3>3
  <2>2. CASE queue_' = <<>>
    BY <2>2 DEF IsInjective, Queued
  <2>3. CASE queue_' = queue_
    BY <2>3 DEF QueueInv, IsInjective, Queued
  <2> QED BY <1>3, <2>1, <2>2, <2>3
<1>5. \E k \in 0 .. Len(queue_') : RanUpTo(k)'
  <2>1. CASE FailsAt > 0 \/ ~can_process_events_
    BY <1>1, <2>1, PassLeaves
  <2>2. CASE ~(FailsAt > 0 \/ ~can_process_events_)
    <3>1. FailsAt = 0
      BY <1>2, <2>2
    <3>2. can_process_events_
      BY <2>2
    <3>3. RanUpTo(0)' /\ queue_' = <<>>
      BY <1>1, <3>1, <3>2, PassEmpties
    <3>4. 0 \in 0 .. Len(queue_')
      BY <3>3
    <3> QED BY <3>3, <3>4
  <2> QED BY <2>1, <2>2
<1>6. ASSUME NEW id, In(Pushed, id)
      PROVE  id \in Ids /\ ran[id] = 0 /\ -id \in Requests /\ In(Runs, -id)
  BY <1>6, <1>2, PushesNew DEF In
<1>7. ASSUME NEW id, In(Runs, id)
      PROVE  In(All, id) /\ Queued(id) /\ (ran[id] > 0 => n > 0)
  <2>1. PICK i \in 1 .. Len(Runs) : queue_[i] = id
    BY <1>7, AllOf
  <2>2. i \in 1 .. Len(queue_) /\ i \in DOMAIN queue_
    <3>1. Len(Runs) \in 0 .. Len(queue_)
      BY RunsSome
    <3> QED BY <1>2, <3>1
  <2>3. Queued(id)
    BY <2>1, <2>2 DEF Queued
  <2>4. ran[id] > 0 => n > 0
    BY <1>1, <2>1, <2>2 DEF RanUpTo
  <2> QED BY <1>7, <2>3, <2>4, AllOf
<1>8. \A r \in Requests : request'[r] # "answered" => ran'[r] = 0 /\ ~Queued(r)'
  <2> SUFFICES ASSUME NEW r \in Requests, request[r] # "answered"
               PROVE  ran'[r] = 0 /\ ~Queued(r)'
    OBVIOUS
  <2>1. ran[r] = 0 /\ ~Queued(r)
    BY DEF QueueInv
  <2>2. ~In(Pushed, r)
    BY <1>6, KindsAssumption DEF KindsAssumption, Requests
  <2>3. ~In(All, r)
    BY <1>7, <2>1, <2>2, AllOf
  <2> QED BY <1>4, <2>1, <2>2, <2>3, RanThen, IdsInt
<1>9. \A r \in Requests : ran'[-r] > 0 \/ Queued(-r)' => ran'[r] > 0
  <2> SUFFICES ASSUME NEW r \in Requests, ran'[-r] > 0 \/ Queued(-r)'
               PROVE  ran'[r] > 0
    OBVIOUS
  <2>0. r \in Ids /\ -r \in Ids /\ -(-r) = r
    BY IdsInt, KindsAssumption DEF KindsAssumption, Requests, Ids
  <2>1. CASE In(Pushed, -r)
    <3>1. In(Runs, r)
      BY <1>6, <2>0, <2>1
    <3>2. In(All, r)
      BY <1>7, <3>1
    <3> QED BY <2>0, <3>2, RanThen
  <2>2. CASE ~In(Pushed, -r)
    <3>1. ran[-r] > 0 \/ Queued(-r)
      <4>1. CASE Queued(-r)'
        BY <1>4, <2>2, <4>1
      <4>2. CASE ran'[-r] > 0
        <5>1. CASE In(All, -r)
          <6>1. In(Runs, -r)
            BY <2>2, <5>1, AllOf
          <6> QED BY <1>7, <6>1
        <5>2. CASE ~In(All, -r)
          BY <2>0, <4>2, <5>2, RanThen
        <5> QED BY <5>1, <5>2
      <4> QED BY <4>1, <4>2
    <3>2. ran[r] > 0
      BY <3>1 DEF QueueInv
    <3> QED BY <2>0, <3>2, RanThen
  <2> QED BY <2>1, <2>2
<1>10. \A id \in Ids : ran'[id] > 1 => "event" \in failures'
  <2> SUFFICES ASSUME NEW id \in Ids, ran'[id] > 1 PROVE "event" \in failures'
    OBVIOUS
  <2>1. ran[id] \in 0 .. 2
    BY DEF QueueInv
  <2>2. CASE ~In(All, id)
    <3>1. ran[id] > 1
      BY <2>2, RanThen
    <3> QED BY <3>1 DEF QueueInv
  <2>3. CASE In(All, id)
    <3>1. ran[id] > 0
      BY <2>1, <2>3, RanThen
    <3>2. In(Runs, id)
      BY <1>6, <2>3, <3>1, AllOf
    <3>3. n > 0
      BY <1>7, <3>1, <3>2
    <3> QED BY <1>1, <3>3 DEF RanUpTo
  <2> QED BY <2>2, <2>3
<1>11. request' \in [Requests -> {"unsent", "sent", "answered"}]
  BY DEF QueueInv
<1>12. first' \in Seq(Ids) /\ ran' \in [Ids -> 0 .. 2]
  BY FirstTyped, RanThen
<1> QED BY <1>4, <1>5, <1>8, <1>9, <1>10, <1>11, <1>12 DEF QueueInv

\* Callbacks that leave events alone.
LEMMA QueueStays ==
    ASSUME QueueInv, UNCHANGED events, failures \subseteq failures',
           \/ UNCHANGED request
           \/ \E r \in Requests, to \in {"sent", "answered"} :
                request[r] # "answered" /\ request' = [request EXCEPT ![r] = to]
    PROVE  QueueInv'
<1>1. /\ queue_' = queue_ /\ arrived' = arrived /\ first' = first /\ ran' = ran
  BY DEF events
<1>2. /\ request' \in [Requests -> {"unsent", "sent", "answered"}]
      /\ \A r \in Requests : request'[r] # "answered" => request[r] # "answered"
  BY DEF QueueInv
<1>3. \A id : Queued(id)' <=> Queued(id)
  BY <1>1 DEF Queued
<1>4. \A n : RanUpTo(n) => RanUpTo(n)'
  BY <1>1 DEF RanUpTo
<1>5. \E n \in 0 .. Len(queue_') : RanUpTo(n)'
  BY <1>1, <1>4 DEF QueueInv
<1> QED BY <1>1, <1>2, <1>3, <1>5 DEF QueueInv

\* An answer's event is behind all others.
LEMMA AnswerQueues ==
    ASSUME QueueInv, NEW r \in Requests, NEW k, AnswerData(r, k)
    PROVE  QueueInv'
<1>1. /\ request[r] = "sent" /\ request' = [request EXCEPT ![r] = "answered"]
      /\ first' = first /\ ran' = ran /\ failures' = failures
      /\ queue_' = Append(queue_, r) /\ arrived' = Append(arrived, r)
  BY DEF AnswerData, Answered, Push
<1>2. /\ queue_ \in Seq(Ids) /\ first \in Seq(Ids) /\ r \in Ids /\ Len(queue_) \in Nat
      /\ ran[r] = 0 /\ ~Queued(r)
  BY <1>1, IdsInt DEF QueueInv
<1>3. PICK n \in 0 .. Len(queue_) : RanUpTo(n)
  BY DEF QueueInv
<1> DEFINE p == <<r>>
           b == SubSeq(queue_, n + 1, Len(queue_))
<1>4. p \in Seq(Ids) /\ Len(p) = 1 /\ p[1] = r /\ IsInjective(p)
  BY <1>2 DEF IsInjective
<1>5. b \in Seq(Ids) /\ arrived = first \o b
  BY <1>2, <1>3, Rest DEF RanUpTo
<1>6. queue_' = queue_ \o p /\ arrived' = (first \o b) \o p
  <2>1. first \o b \in Seq(Ids)
    BY <1>2, <1>5, ConcatProperties
  <2> QED BY <1>1, <1>2, <1>5, <2>1, AppendIsConcat
<1> HIDE DEF p, b
<1>7. \A i \in 1 .. Len(p) : ~Queued(p[i])
  BY <1>2, <1>4
<1>8. /\ queue_' \in Seq(Ids) /\ IsInjective(queue_') /\ Len(queue_') = Len(queue_) + 1
      /\ \A i \in 1 .. Len(queue_) : queue_'[i] = queue_[i]
      /\ queue_'[Len(queue_) + 1] = r
  <2>1. PICK u : u = queue_ \o p
    OBVIOUS
  <2>2. /\ u \in Seq(Ids) /\ IsInjective(u) /\ Len(u) = Len(queue_) + Len(p)
        /\ \A i \in 1 .. Len(queue_) : u[i] = queue_[i]
        /\ \A i \in Len(queue_) + 1 .. Len(u) : u[i] = p[i - Len(queue_)]
    BY <1>4, <1>7, <2>1, PushedQueue
  <2>3. queue_' = u
    BY <1>6, <2>1
  <2>4. u[Len(queue_) + 1] = p[1]
    BY <1>2, <1>4, <2>2
  <2> QED BY <1>4, <2>2, <2>3, <2>4
<1>9. \A id : Queued(id)' <=> Queued(id) \/ id = r
  <2>1. DOMAIN queue_' = 1 .. Len(queue_) + 1 /\ DOMAIN queue_ = 1 .. Len(queue_)
    BY <1>2, <1>8
  <2> QED BY <1>2, <1>8, <2>1 DEF Queued
<1>10. RanUpTo(n)'
  <2>1. \A i \in 1 .. n : ran[queue_'[i]] > 0
    <3>1. ASSUME NEW i \in 1 .. n PROVE ran[queue_'[i]] > 0
      <4>1. i \in 1 .. Len(queue_) /\ ran[queue_[i]] > 0
        BY <1>2, <1>3 DEF RanUpTo
      <4> QED BY <1>8, <4>1
    <3> QED BY <3>1
  <2>2. \A i \in n + 1 .. Len(queue_') : ran[queue_'[i]] = 0
    <3> SUFFICES ASSUME NEW i \in n + 1 .. Len(queue_') PROVE ran[queue_'[i]] = 0
      OBVIOUS
    <3>1. CASE i <= Len(queue_)
      <4>1. i \in 1 .. Len(queue_) /\ ran[queue_[i]] = 0
        BY <1>2, <1>3, <3>1 DEF RanUpTo
      <4> QED BY <1>8, <4>1
    <3>2. CASE ~(i <= Len(queue_))
      <4>1. i = Len(queue_) + 1
        BY <1>2, <1>8, <3>2
      <4> QED BY <1>2, <1>8, <4>1
    <3> QED BY <3>1, <3>2
  <2>3. SubSeq(queue_', n + 1, Len(queue_')) = b \o p
    BY <1>2, <1>4, <1>6, RestPushed DEF b
  <2>4. first \o (b \o p) = (first \o b) \o p
    <3>1. ThreeJoin(first, b, p)
      BY <1>2, <1>4, <1>5, ThreeParts
    <3> QED BY <3>1, Zenon DEF ThreeJoin
  <2>5. arrived' = first' \o SubSeq(queue_', n + 1, Len(queue_'))
    BY <1>1, <1>6, <2>3, <2>4, Zenon
  <2> QED BY <1>1, <1>3, <2>1, <2>2, <2>5 DEF RanUpTo
<1>11. n \in 0 .. Len(queue_')
  BY <1>2, <1>8
<1>12. /\ request' \in [Requests -> {"unsent", "sent", "answered"}]
       /\ \A q \in Requests : request'[q] # "answered" => request[q] # "answered" /\ q # r
  BY <1>1 DEF QueueInv
<1>13. \A q \in Requests : request'[q] # "answered" => ran'[q] = 0 /\ ~Queued(q)'
  BY <1>1, <1>9, <1>12 DEF QueueInv
<1>14. \A q \in Requests : ran'[-q] > 0 \/ Queued(-q)' => ran'[q] > 0
  <2>1. \A q \in Requests : -q # r
    BY KindsAssumption DEF KindsAssumption, Requests
  <2> QED BY <1>1, <1>9, <2>1 DEF QueueInv
<1> QED BY <1>1, <1>2, <1>8, <1>10, <1>11, <1>12, <1>13, <1>14 DEF QueueInv

LEMMA EngineStarts == EngineInit => EngineInv
<1> SUFFICES ASSUME EngineInit PROVE EngineInv
  OBVIOUS
<1>1. /\ queue_ = <<>> /\ first = <<>> /\ arrived = <<>>
      /\ ran = [id \in Ids |-> 0] /\ request = [r \in Requests |-> "unsent"]
  BY DEF EngineInit
<1>2. SubSeq(queue_, 0 + 1, Len(queue_)) = <<>> /\ Len(queue_) = 0 /\ <<>> \o <<>> = <<>>
  BY <1>1
<1>3. RanUpTo(0)
  BY <1>1, <1>2 DEF RanUpTo
<1>4. queue_ \in Seq(Ids) /\ IsInjective(queue_) /\ \A id : ~Queued(id)
  BY <1>1 DEF IsInjective, Queued
<1>5. \A r \in Requests : r \in Ids /\ -r \in Ids
  BY DEF Ids
<1> QED BY <1>1, <1>2, <1>3, <1>4, <1>5 DEF EngineInit, EngineInv, QueueInv

\* A frame runs a pass, and has an own trace of each way it fails.
LEMMA FrameKeeps == ASSUME EngineInv, Frame PROVE EngineInv'
<1>1. UNCHANGED request /\ RunEvents /\ failures \subseteq failures'
      /\ (FailsAt > 0 => "event" \in failures')
  <2>1. CASE FrameEventFails
    BY <2>1 DEF Frame, FrameEventFails, FrameFails
  <2>2. CASE FrameIntegrityFails
    BY <2>2 DEF Frame, FrameIntegrityFails, FrameFails
  <2>3. CASE FrameDrawAsserts \/ FrameDrawFails
    BY <2>3 DEF Frame, FrameDrawAsserts, FrameDrawFails, FrameRenders, FrameFails
  <2>4. CASE FrameDone
    BY <2>4 DEF Frame, FrameDone, FrameRenders
  <2> QED BY <2>1, <2>2, <2>3, <2>4 DEF Frame
<1>2. QueueInv'
  BY <1>1, PassKeeps DEF EngineInv
<1>3. must_check_integrity_' = must_check_integrity_ \/ "integrity" \in failures'
  BY DEF Frame, FrameEventFails, FrameIntegrityFails, FrameDrawAsserts, FrameDrawFails,
     FrameDone, FrameRenders, FrameFails
<1>4. is_drawing_' = is_drawing_ \/ is_drawing_' = FALSE \/ "draw" \in failures'
  BY DEF Frame, FrameEventFails, FrameIntegrityFails, FrameDrawAsserts, FrameDrawFails,
     FrameDone, FrameRenders, FrameFails
<1> QED BY <1>1, <1>2, <1>3, <1>4 DEF EngineInv

LEMMA EngineStep == EngineInv /\ [EngineNext]_engineVars => EngineInv'
<1> SUFFICES ASSUME EngineInv, [EngineNext]_engineVars PROVE EngineInv'
  OBVIOUS
<1>0. ASSUME UNCHANGED <<events, failures>>, UNCHANGED must_check_integrity_, UNCHANGED is_drawing_,
             \/ UNCHANGED request
             \/ \E r \in Requests, to \in {"sent", "answered"} :
                  request[r] # "answered" /\ request' = [request EXCEPT ![r] = to]
      PROVE  EngineInv'
  BY <1>0, QueueStays DEF EngineInv
<1>1. ASSUME NEW r \in Requests, Send(r) PROVE EngineInv'
  BY <1>0, <1>1 DEF Send, viewport, integrity
<1>2. ASSUME NEW r \in Requests, NEW k \in Kinds, AnswerData(r, k) PROVE EngineInv'
  BY <1>2, AnswerQueues DEF EngineInv, AnswerData, Answered, viewport, integrity
<1>3. ASSUME NEW r \in Requests, AnswerBad(r) \/ AnswerLost(r) PROVE EngineInv'
  BY <1>0, <1>3 DEF AnswerBad, AnswerLost, Answered, viewport, integrity
<1>4. CASE SetErrorHandler
  BY <1>0, <1>4 DEF SetErrorHandler, viewport, integrity
<1>5. ASSUME NEW s \in Screens, ShowScreen(s) PROVE EngineInv'
  BY <1>0, <1>5 DEF ShowScreen, Shown, integrity
<1>6. CASE ShiftScreens \/ RequestRedraw
  BY <1>0, <1>6 DEF ShiftScreens, RequestRedraw, integrity
<1>7. CASE ReturnToPrevious
  BY <1>0, <1>7 DEF ReturnToPrevious, Input, Shown, integrity
<1>8. ASSUME NEW critical \in BOOLEAN, InputFails(critical) PROVE EngineInv'
  BY <1>0, <1>8 DEF InputFails, Input, viewport, integrity
<1>9. CASE LoseHandlers \/ TimeUp
  BY <1>0, <1>9 DEF LoseHandlers, TimeUp, viewport
<1>10. CASE Start
  BY <1>0, <1>10 DEF Start, viewport, integrity
<1>11. ASSUME NEW b \in BOOLEAN, Allow(b) PROVE EngineInv'
  BY <1>0, <1>11 DEF Allow, viewport, integrity
<1>12. CASE Frame
  BY <1>12, FrameKeeps
<1>13. CASE UNCHANGED engineVars
  BY <1>0, <1>13 DEF engineVars, viewport, integrity
<1> QED BY <1>1, <1>2, <1>3, <1>4, <1>5, <1>6, <1>7, <1>8, <1>9, <1>10, <1>11, <1>12, <1>13
       DEF EngineNext

LEMMA RunInOrder == EngineInv => FirstRunsInOrder
<1> SUFFICES ASSUME EngineInv PROVE FirstRunsInOrder
  OBVIOUS
<1>1. PICK n \in 0 .. Len(queue_) : RanUpTo(n)
  BY DEF EngineInv, QueueInv
<1>2. PICK b \in Seq(Ids) : b = SubSeq(queue_, n + 1, Len(queue_))
  <2>1. queue_ \in Seq(Ids)
    BY DEF EngineInv, QueueInv
  <2>2. Len(queue_) \in n .. Len(queue_)
    BY <2>1
  <2> QED BY <2>1, <2>2, Rest
<1>3. first \in Seq(Ids) /\ arrived = first \o b
  BY <1>1, <1>2 DEF EngineInv, QueueInv, RanUpTo
<1>4. /\ Len(arrived) = Len(first) + Len(b)
      /\ \A i \in 1 .. Len(first) : arrived[i] = first[i]
      /\ arrived \in Seq(Ids)
  BY <1>3, ConcatProperties
<1>5. SubSeq(first, 1, Len(first)) = first
  BY <1>3, SubSeqFull
<1>6. SubSeq(arrived, 1, Len(first)) = first
  <2>1. PICK t : t = SubSeq(arrived, 1, Len(first))
    OBVIOUS
  <2>2. t \in Seq(Ids) /\ Len(t) = Len(first) /\ \A i \in 1 .. Len(first) : t[i] = arrived[i]
    <3>1. 0 \in 0 .. Len(arrived) /\ Len(first) \in 0 .. Len(arrived)
      BY <1>2, <1>3, <1>4
    <3>2. /\ SubSeq(arrived, 0 + 1, Len(first)) \in Seq(Ids)
          /\ Len(SubSeq(arrived, 0 + 1, Len(first))) = Len(first) - 0
          /\ \A i \in 1 .. Len(first) - 0 : SubSeq(arrived, 0 + 1, Len(first))[i] = arrived[0 + i]
      BY <1>4, <3>1, Rest
    <3> QED BY <1>3, <2>1, <3>2
  <2>3. t = first
    BY <1>3, <1>4, <2>2, SeqEqual
  <2> QED BY <2>1, <2>3
<1>7. Len(first) <= Len(arrived)
  BY <1>2, <1>3, <1>4
<1> QED BY <1>5, <1>6, <1>7 DEF FirstRunsInOrder, IsPrefix

LEMMA CausesKnown == EngineInv => DamageHasCause
BY DEF EngineInv, QueueInv, DamageHasCause

\* What an event queue has run for the first time so far is a beginning of what arrived.
THEOREM EventsInOrder == EngineSpec => []FirstRunsInOrder
BY RunInOrder, EngineStarts, EngineStep, PTL DEF EngineSpec

\* Events run twice, checks that end and drawing that stays marked have each their own cause.
THEOREM DamageExplained == EngineSpec => []DamageHasCause
BY CausesKnown, EngineStarts, EngineStep, PTL DEF EngineSpec
=============================================================================
