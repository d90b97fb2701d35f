----------------------------- MODULE PkLoading -----------------------------
(***************************************************************************)
(* Loading a pk-engine game: the preloader's images, GraphicsStore and     *)
(* SoundStore, which the browser fills as files arrive, and Loader, which  *)
(* polls both and tells the game once all is there.  Files arrive, fail or *)
(* stay away in any order; sounds that stay away are given up in the end.  *)
(***************************************************************************)
EXTENDS Integers, FiniteSets, FiniteSetsExt

CONSTANTS
    MaxImages,      \* images the game's configuration lists
    Names,          \* the names it gives them, not always different ones
    NameOf,
    Sounds,         \* PKEngine.SoundConfig.Sounds
    PreloaderImages \* how many images Loader.init creates in the resources div

Images == 1 .. MaxImages

ASSUME LoadingAssumption ==
    /\ MaxImages \in Nat /\ PreloaderImages \in Nat
    /\ IsFiniteSet(Sounds) /\ IsFiniteSet(Names)
    /\ NameOf \in [Images -> Names]

VARIABLES
    preloader,      \* images of the preloader still under way, or -1 before Loader.init
    preloader_resource_count_,
    image,          \* the state of each Image object
    images_,        \* the image that is stored under each name, or 0
    disabled,       \* SoundSystem.IsDisabled()
    sounds_,        \* per sound: absent, or whether it is loaded and has its handler
    loaded_sounds_,
    total_sounds_,
    errors_,        \* the sounds whose failure is to be reported,
    errors_off,     \* or that it is false
    on_error_,      \* whether set_error_handler has been called
    timeout,        \* the timeout of load_sounds: none, set or done
    loading_complete,   \* of resource_loading_finished_: a property of window, not of SoundStore
    resources_loaded_,
    check_pending,  \* whether a timeout of check_loaded_data is set
    ready,          \* for the properties: how often the game was told that the preloader
    complete,       \* is ready, and that loading is complete, two or more times being 2,
    erred,         \* which sounds had an error before they were given up,
    reported        \* and which were reported as failed or given up

graphics == <<image, images_>>
audio == <<disabled, sounds_, loaded_sounds_, total_sounds_, errors_, errors_off, on_error_,
           timeout, loading_complete, erred, reported>>
loader == <<resources_loaded_, check_pending, complete>>
pre == <<preloader, preloader_resource_count_, ready>>
loadingVars == <<pre, graphics, audio, loader>>

Sound == [loaded : BOOLEAN, handler : BOOLEAN]
Absent == [loaded |-> FALSE, handler |-> FALSE]
Unsettled == [loaded |-> FALSE, handler |-> TRUE]

LoadingTypeOK ==
    /\ preloader \in -1 .. PreloaderImages + 1
    /\ preloader_resource_count_ \in 0 .. PreloaderImages + 1
    /\ image \in [Images -> {"none", "loading", "loaded", "failed"}]
    /\ images_ \in [Names -> 0 .. MaxImages]
    /\ sounds_ \in [Sounds -> Sound]
    /\ loaded_sounds_ \in 0 .. Cardinality(Sounds) /\ total_sounds_ \in {0, Cardinality(Sounds)}
    /\ errors_ \subseteq Sounds
    /\ timeout \in {"none", "set", "done"}
    /\ {disabled, errors_off, on_error_, loading_complete, resources_loaded_, check_pending}
       \subseteq BOOLEAN
    /\ ready \in 0 .. 2 /\ complete \in 0 .. 2
    /\ erred \subseteq Sounds /\ reported \subseteq Sounds

LoadingInit ==
    /\ preloader = -1 /\ preloader_resource_count_ = 0
    /\ image = [i \in Images |-> "none"]
    /\ images_ = [n \in Names |-> 0]
    /\ disabled = FALSE
    /\ sounds_ = [s \in Sounds |-> Absent]
    /\ loaded_sounds_ = 0 /\ total_sounds_ = 0
    /\ errors_ = {} /\ errors_off = FALSE /\ on_error_ = FALSE
    /\ timeout = "none" /\ loading_complete = FALSE
    /\ resources_loaded_ = FALSE /\ check_pending = FALSE
    /\ ready = 0 /\ complete = 0 /\ erred = {} /\ reported = {}

Told(n) == Min({2, n + 1})
-----------------------------------------------------------------------------
(* Loader *)

\* Loader.init: one image, the background, is outside the resources div.
InitLoader ==
    /\ preloader = -1
    /\ preloader' = PreloaderImages + 1
    /\ UNCHANGED <<preloader_resource_count_, ready, graphics, audio, loader>>

PreloaderReady(n) == n > PreloaderImages

\* An image of the preloader arrives: check_preloader_ready.
PreloaderLoad ==
    /\ preloader > 0
    /\ preloader' = preloader - 1
    /\ preloader_resource_count_' = preloader_resource_count_ + 1
    /\ ready' = IF PreloaderReady(preloader_resource_count_ + 1) THEN Told(ready) ELSE ready
    /\ UNCHANGED <<graphics, audio, loader>>

\* GraphicsStore.count_loaded and count_total, and those of SoundStore.
LoadedImages(img) == {n \in Names : images_[n] > 0 /\ img[images_[n]] = "loaded"}
Progress(img) == Cardinality(LoadedImages(img)) + (IF disabled THEN 0 ELSE loaded_sounds_)
AllResources ==
    Cardinality({n \in Names : images_[n] > 0}) + (IF disabled THEN 0 ELSE total_sounds_)

\* Mutant of CheckLoaded: no check is made later.
CheckLoadedOnce(img) ==
    /\ UNCHANGED check_pending
    /\ IF resources_loaded_ \/ Progress(img) < AllResources
       THEN UNCHANGED <<resources_loaded_, complete>>
       ELSE resources_loaded_' = TRUE /\ complete' = Told(complete)

\* check_loaded_data, with the images as in img: it is called again until all is loaded.
CheckLoaded(img) ==
    IF resources_loaded_ THEN UNCHANGED loader
    ELSE IF Progress(img) >= AllResources
         THEN resources_loaded_' = TRUE /\ complete' = Told(complete) /\ UNCHANGED check_pending
         ELSE check_pending' = TRUE /\ UNCHANGED <<resources_loaded_, complete>>

\* The timeout of one chain of checks; others may be set still.
Check ==
    /\ check_pending
    /\ \/ CheckLoaded(image)
       \/ resources_loaded_ /\ check_pending' = FALSE /\ UNCHANGED <<resources_loaded_, complete>>
    /\ UNCHANGED <<pre, graphics, audio>>
-----------------------------------------------------------------------------
(* GraphicsStore *)

\* GUIControls.load_graphics adds all images in one callback: the last of a name is stored.
LoadGraphics ==
    /\ preloader # -1
    /\ \A i \in Images : image[i] = "none"
    /\ image' = [i \in Images |-> "loading"]
    /\ images_' = [n \in Names |-> Max({i \in Images : NameOf[i] = n} \cup {0})]
    /\ UNCHANGED <<pre, audio, loader>>

\* onload: every image of the configuration makes a check.
ImageLoad(i) ==
    /\ image[i] = "loading"
    /\ image' = [image EXCEPT ![i] = "loaded"]
    /\ CheckLoaded(image')
    /\ UNCHANGED <<pre, images_, audio>>

\* onerror: PK.image_loading_error marks the image, and nobody looks at the mark.
ImageFails(i) ==
    /\ image[i] = "loading"
    /\ image' = [image EXCEPT ![i] = "failed"]
    /\ UNCHANGED <<pre, images_, audio, loader>>
-----------------------------------------------------------------------------
(* SoundStore *)

\* set_error_handler
SetSoundErrorHandler ==
    /\ on_error_' = TRUE
    /\ UNCHANGED <<pre, graphics, loader, disabled, sounds_, loaded_sounds_, total_sounds_, errors_,
                   errors_off, timeout, loading_complete, erred, reported>>

\* What return_sound_extension_by_browser_support finds: a format; no Audio, which disables
\* sound; or no format it knows, which is a critical error.  That stops load_sounds before
\* it has set anything, unless it returns; then sound is disabled and load_sounds goes on.
Formats == {"found", "no audio", "none thrown", "none returned"}

\* load_sounds.  It throws at the first sound, when the constructor of Audio is missing or
\* addEventListener is: there the store calls a method it does not have.
LoadSounds(format, listeners) ==
    /\ preloader # -1 /\ timeout = "none" /\ total_sounds_ = 0
    /\ disabled' = (format \in {"no audio", "none returned"})
    /\ total_sounds_' = IF format = "none thrown" THEN 0 ELSE Cardinality(Sounds)
    /\ \/ format = "none thrown" /\ UNCHANGED <<sounds_, timeout>>
       \/ format = "no audio" /\ Sounds # {} /\ UNCHANGED <<sounds_, timeout>>
       \/ /\ format \in {"found", "none returned"} /\ ~listeners /\ UNCHANGED timeout
          /\ \E s \in Sounds : sounds_' = [sounds_ EXCEPT ![s] = Unsettled]
       \/ /\ IF format = "no audio" THEN Sounds = {}
             ELSE format # "none thrown" /\ (listeners \/ Sounds = {})
          /\ timeout' = "set"
          /\ sounds_' = [s \in Sounds |-> Unsettled]
    /\ UNCHANGED <<pre, graphics, loader, loaded_sounds_, errors_, errors_off, on_error_,
                   loading_complete, erred, reported>>

\* Mutant of Finished: every call counts.
FinishedEachCall(S, keep) ==
    /\ sounds_' = [s \in Sounds |-> IF s \in S THEN [loaded |-> TRUE, handler |-> keep] ELSE sounds_[s]]
    /\ loaded_sounds_' = loaded_sounds_ + Cardinality(S)

\* The effect of resource_loading_finished_ on the sounds of S and on the count; keep says
\* whether they keep their handlers.
Finished(S, keep) ==
    /\ sounds_' = [s \in Sounds |->
                     IF s \in S THEN [loaded |-> TRUE, handler |-> keep /\ sounds_[s].handler]
                                ELSE sounds_[s]]
    /\ loaded_sounds_' = loaded_sounds_ + Cardinality({s \in S : ~sounds_[s].loaded})

\* Mutant of Reports: the errors are reported while sounds are under way.
ReportsEarly(errors) == TRUE

\* And that all are loaded, which is when errors are reported, and only once.
Reports(errors) == loaded_sounds_' >= total_sounds_ /\ ~loading_complete

Report(errors) ==
    /\ loading_complete' = (loading_complete \/ loaded_sounds_' >= total_sounds_)
    /\ reported' = IF Reports(errors) /\ ~errors_off /\ on_error_ THEN reported \cup errors
                                                                      ELSE reported

\* canplaythrough: again after each seek, and after the sound was given up.
CanPlay(s) ==
    /\ timeout # "none" /\ s \notin erred
    /\ Finished({s}, TRUE)
    /\ Report(errors_)
    /\ UNCHANGED <<pre, graphics, loader, disabled, total_sounds_, errors_, errors_off,
                   on_error_, timeout, erred>>

\* onerror: resource_failed_.  A handler that was deleted has no error to report.
SoundFails(s) ==
    /\ timeout # "none" /\ s \notin erred
    /\ errors_' = IF sounds_[s].handler /\ ~errors_off THEN errors_ \cup {s} ELSE errors_
    /\ erred' = IF sounds_[s].handler THEN erred \cup {s} ELSE erred
    /\ Finished({s}, FALSE)
    /\ Report(errors_')
    /\ UNCHANGED <<pre, graphics, loader, disabled, total_sounds_, errors_off, on_error_, timeout>>

Unloaded == {s \in Sounds : ~sounds_[s].loaded}

GivenUp == Finished(Unloaded, FALSE)

\* The timeout of load_sounds.  errors_ is off from the first sound given up on: when there
\* is another, earlier failures are not reported.  Without a handler of errors it throws,
\* at its end.
Timeout ==
    /\ timeout = "set" /\ timeout' = "done"
    /\ GivenUp
    /\ errors_off' = (errors_off \/ Unloaded # {})
    /\ errors_' = IF Unloaded = {} THEN errors_ ELSE {}
    /\ loading_complete' = (loading_complete \/ Unloaded # {})
    /\ reported' = IF ~on_error_ THEN reported
                   ELSE reported \cup Unloaded
                          \cup (IF Cardinality(Unloaded) = 1 THEN errors_ ELSE {})
    /\ UNCHANGED <<pre, graphics, loader, disabled, total_sounds_, on_error_, erred>>
-----------------------------------------------------------------------------
LoadingNext ==
    \/ InitLoader
    \/ PreloaderLoad
    \/ LoadGraphics
    \/ \E i \in Images : ImageLoad(i) \/ ImageFails(i)
    \/ SetSoundErrorHandler
    \/ \E format \in Formats, listeners \in BOOLEAN : LoadSounds(format, listeners)
    \/ \E s \in Sounds : CanPlay(s) \/ SoundFails(s)
    \/ Timeout
    \/ Check

LoadingSpec == LoadingInit /\ [][LoadingNext]_loadingVars

\* Timeouts come; the browser says of each image that it has loaded or that it has not.
LoadingFairness ==
    /\ WF_loadingVars(Timeout) /\ WF_loadingVars(Check)
    /\ \A i \in Images : WF_loadingVars(ImageLoad(i) \/ ImageFails(i))
-----------------------------------------------------------------------------
\* The game is told once that it can start, although every image starts a chain of checks;
\* by then each image that it can get by its name is there and no sound is awaited, and
\* the two counts that are added up never make up for each other.  It is told once that
\* the preloader is ready, with all its images there.
CompleteMeansLoaded ==
    [][/\ complete' > complete =>
            /\ complete = 0
            /\ \A n \in Names : images_[n] > 0 => image'[images_[n]] = "loaded"
            /\ disabled \/ total_sounds_ = 0 \/ Unloaded = {}
       /\ ready' > ready => ready = 0 /\ preloader' = 0]_loadingVars

\* What the game is told of its sounds.  Each sound it is told of cannot be played, since
\* its handler is gone; it is told only once no sound is under way; and when loading
\* completes with a handler of errors set, it is told of exactly the sounds that failed and
\* of the one given up, if there is one.  When several are given up it is told of those
\* alone, and never of the failures that came before: giving up the first drops them.
FailuresReported ==
    [][/\ \A s \in reported' : ~sounds_'[s].handler
       /\ reported' # reported => loaded_sounds_' >= total_sounds_
       /\ ~loading_complete /\ loading_complete' /\ on_error_ =>
            LET givenUp == IF Timeout THEN Unloaded ELSE {}
            IN  reported' = IF Cardinality(givenUp) <= 1 THEN erred' \cup givenUp ELSE givenUp
      ]_loadingVars

Broken == \E n \in Names : images_[n] > 0 /\ image[images_[n]] = "failed"

\* load_sounds has thrown at its first sound, for want of addEventListener.
Unlistened == total_sounds_ > 0 /\ timeout = "none" /\ ~disabled

\* Once images are loading, loading comes to its end, whatever sounds do, with or without a
\* format or Audio to play them, unless an image that is needed fails or the browser has no
\* addEventListener.
LoadingEnds ==
    (\E i \in Images : image[i] # "none") ~> resources_loaded_ \/ Broken \/ Unlistened
=============================================================================
