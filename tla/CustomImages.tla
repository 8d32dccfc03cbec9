---------------------------- MODULE CustomImages ----------------------------
(***************************************************************************)
(* The custom images (frontend/src/old-pages/Images/CustomImages, model.tsx):  *)
(* the list by status, the details of the selected image with their tabs, and  *)
(* the dialog that builds an image.  Answers come in any order, and after the  *)
(* page was left.                                                            *)
(*                                                                         *)
(* An image is known by its name; a list by the status it was asked with.  A   *)
(* definition named Bug... is a plausible mistake in the one that follows it.  *)
(***************************************************************************)
EXTENDS Naturals, FiniteSets

CONSTANTS AllImages, Nothing,
          MaxImageCalls  \* bound: requests under way when another is sent

ASSUME ImagesAssumption == Nothing \notin AllImages \cup {"AVAILABLE", "PENDING"}

VARIABLES pageShown,    \* the tab of custom images is mounted
          statusFilter, \* StatusSelect's own state and selectedImageStatus of the store
          imageList,    \* customImages.list: the status it was asked with
          image,        \* app.customImages.selected
          known,        \* customImages.index: images described, and with events
          detailsTab, config,  \* the tab shown, app.customImages.config
          build,        \* app.customImages.imageBuild
          imageCalls,
          imagePast     \* history

imageVars == <<pageShown, statusFilter, imageList, image, known, detailsTab, config,
               build, imageCalls, imagePast>>

ImageStatuses == {"AVAILABLE", "PENDING"}
DetailsTabs == {"properties", "configuration", "events"}
About(cmds) == {r \in imageCalls : r.cmd \in cmds}
Call(cmd, what) == [cmd |-> cmd, what |-> what]
CallImages(cmd, what) ==
  /\ Cardinality(imageCalls) < MaxImageCalls
  /\ imageCalls' = imageCalls \cup {Call(cmd, what)}

-----------------------------------------------------------------------------
(* The list.                                                               *)

\* The status the page asks for when it mounts.
MountStatus == IF statusFilter.stored = Nothing THEN "AVAILABLE" ELSE statusFilter.stored

\* CustomImages mounts; the status of the select starts over.
ShowImages ==
  /\ ~pageShown /\ pageShown' = TRUE
  /\ CallImages("list", MountStatus)
  /\ statusFilter' = [statusFilter EXCEPT !.shown = "AVAILABLE"]
  /\ detailsTab' = "properties"
  /\ imagePast' = [imagePast EXCEPT
       !.mixed = About({"list"}) # {} \/ statusFilter.stored \notin {Nothing, "AVAILABLE"}]
  /\ UNCHANGED <<imageList, image, known, config, build>>

LeaveImages ==
  /\ pageShown /\ pageShown' = FALSE
  /\ UNCHANGED <<statusFilter, imageList, image, known, detailsTab, config, build,
                 imageCalls, imagePast>>

\* refreshImages.
RefreshImages ==
  /\ pageShown /\ ~build.dialog
  /\ CallImages("list", MountStatus)
  /\ imageList' = Nothing /\ image' = Nothing /\ detailsTab' = "properties"
  /\ imagePast' = [imagePast EXCEPT
       !.mixed = About({"list"}) # {} \/ statusFilter.stored \notin {Nothing, statusFilter.shown}]
  /\ UNCHANGED <<pageShown, statusFilter, known, config, build>>

BugChosen(s) == [statusFilter EXCEPT !.shown = s]
\* What the choice of a status writes.
Chosen(s) == [shown |-> s, stored |-> s]

ChooseStatus(s) ==
  /\ pageShown /\ ~build.dialog /\ s # statusFilter.shown
  /\ CallImages("list", s)
  /\ statusFilter' = Chosen(s)
  /\ imagePast' = [imagePast EXCEPT !.mixed = About({"list"}) # {}]
  /\ UNCHANGED <<pageShown, imageList, image, known, detailsTab, config, build>>

-----------------------------------------------------------------------------
(* The details.                                                            *)

\* The image select describes.
Described(i) == i

\* select; an open tab is not told.
SelectImage(i) ==
  /\ pageShown /\ ~build.dialog /\ imageList # Nothing /\ i # image
  /\ CallImages("describe", Described(i))
  /\ image' = i
  /\ imagePast' = [imagePast EXCEPT !.lost = FALSE,
                                    !.reselected = @ \/ detailsTab # "properties"]
  /\ UNCHANGED <<pageShown, statusFilter, imageList, known, detailsTab, config, build>>

BugAskDetails(t) ==
  IF t = "properties" \/ (t = "configuration" /\ config # Nothing)
    THEN UNCHANGED imageCalls ELSE CallImages(t, image)
\* The effects of CustomImageConfiguration and CustomImageStackEvents.
AskDetails(t) == IF t = "properties" THEN UNCHANGED imageCalls ELSE CallImages(t, image)

OpenDetails(t) ==
  /\ pageShown /\ ~build.dialog /\ image # Nothing /\ t # detailsTab
  /\ detailsTab' = t
  /\ AskDetails(t)
  /\ imagePast' = [imagePast EXCEPT !.failed = FALSE, !.reselected =
       t = "configuration" /\ About({"configuration"}) # {}]
  /\ UNCHANGED <<pageShown, statusFilter, imageList, image, known, config, build>>

-----------------------------------------------------------------------------
(* The dialog.                                                             *)

OpenBuild ==
  /\ pageShown /\ ~build.dialog /\ build' = [build EXCEPT !.dialog = TRUE]
  /\ UNCHANGED <<pageShown, statusFilter, imageList, image, known, detailsTab, config,
                 imageCalls, imagePast>>

\* handleClose.
Closed == [build EXCEPT !.dialog = FALSE, !.errors = FALSE]
CloseBuild ==
  /\ pageShown /\ build.dialog /\ build' = Closed
  /\ UNCHANGED <<pageShown, statusFilter, imageList, image, known, detailsTab, config,
                 imageCalls, imagePast>>

Started == [build EXCEPT !.pending = TRUE, !.errors = FALSE]
\* handleBuild, with a name.
Build(i) ==
  /\ pageShown /\ build.dialog /\ ~build.pending
  /\ CallImages("build", i)
  /\ build' = Started
  /\ UNCHANGED <<pageShown, statusFilter, imageList, image, known, detailsTab, config,
                 imagePast>>

-----------------------------------------------------------------------------
(* Answers.                                                                *)

ImageArrives(r) ==
  /\ imageCalls' = imageCalls \ {r}
  /\ imageList' = IF r.cmd = "list" THEN r.what ELSE imageList
  /\ known' = CASE r.cmd \in {"describe", "build"} -> [known EXCEPT !.described = @ \cup {r.what}]
                [] r.cmd = "events" -> [known EXCEPT !.events = @ \cup {r.what}]
                [] OTHER -> known
  /\ config' = IF r.cmd = "configuration" THEN r.what ELSE config
  /\ build' = IF r.cmd = "build" THEN [Closed EXCEPT !.pending = FALSE] ELSE build
  /\ UNCHANGED <<pageShown, statusFilter, image, detailsTab, imagePast>>

BugFailed(response) == IF response THEN [build EXCEPT !.errors = TRUE, !.pending = FALSE] ELSE build
\* Errors come with a response; waiting ends with any failure.
Failed(response) == [build EXCEPT !.errors = response \/ @, !.pending = FALSE]

ImageFails(r) ==
  /\ imageCalls' = imageCalls \ {r}
  /\ \E response \in BOOLEAN :
       build' = IF r.cmd = "build" THEN Failed(response) ELSE build
  /\ imagePast' = [imagePast EXCEPT
       !.lost = @ \/ r = Call("describe", image),
       !.failed = @ \/ (r.cmd \in {"configuration", "events"} /\ r.what = image),
       !.mixed = @ \/ r.cmd = "list"]
  /\ UNCHANGED <<pageShown, statusFilter, imageList, image, known, detailsTab, config>>

-----------------------------------------------------------------------------
ImagesInit ==
  /\ pageShown = FALSE
  /\ statusFilter = [shown |-> "AVAILABLE", stored |-> Nothing]
  /\ imageList = Nothing /\ image = Nothing /\ known = [described |-> {}, events |-> {}]
  /\ detailsTab = "properties" /\ config = Nothing
  /\ build = [dialog |-> FALSE, pending |-> FALSE, errors |-> FALSE]
  /\ imageCalls = {Call("list", "AVAILABLE")}   \* LoadInitialState
  /\ imagePast = [mixed |-> FALSE, lost |-> FALSE, reselected |-> FALSE, failed |-> FALSE]

ImagesNext ==
  \/ ShowImages \/ LeaveImages \/ RefreshImages \/ OpenBuild \/ CloseBuild
  \/ \E s \in ImageStatuses : ChooseStatus(s)
  \/ \E i \in AllImages : SelectImage(i) \/ Build(i)
  \/ \E t \in DetailsTabs : OpenDetails(t)
  \/ \E r \in imageCalls : ImageArrives(r) \/ ImageFails(r)

ImagesSpec == ImagesInit /\ [][ImagesNext]_imageVars

-----------------------------------------------------------------------------
(* Properties.                                                             *)

\* Every variable has its shape.
ImagesTypeOK ==
  /\ pageShown \in BOOLEAN
  /\ statusFilter \in [shown : ImageStatuses, stored : ImageStatuses \cup {Nothing}]
  /\ imageList \in ImageStatuses \cup {Nothing} /\ image \in AllImages \cup {Nothing}
  /\ known \in [described : SUBSET AllImages, events : SUBSET AllImages]
  /\ detailsTab \in DetailsTabs /\ config \in AllImages \cup {Nothing}
  /\ build \in [dialog : BOOLEAN, pending : BOOLEAN, errors : BOOLEAN]
  /\ imageCalls \subseteq [cmd : {"list"}, what : ImageStatuses] \cup
       [cmd : {"describe", "build", "configuration", "events"}, what : AllImages]

\* The list is of the status the select shows, unless lists overlapped or failed,
\* or the page was left with another status (its select starts over, the store's
\* status does not).
ListIsOfChosen ==
  pageShown /\ imageList # Nothing /\ About({"list"}) = {} /\ ~imagePast.mixed
    => imageList = statusFilter.shown

\* The configuration shown is the selected image's, once its answer came, unless
\* another image was selected with the tab open, which asks nothing again, or
\* requests for configurations overlapped.
ConfigurationIsOfSelected ==
  detailsTab = "configuration" /\ About({"configuration"}) = {}
    => config = image \/ imagePast.reselected \/ imagePast.failed

\* What the details wait for is on its way, or its request failed, or the tab was
\* open when the image was selected.
DetailsOnTheirWay ==
  image # Nothing =>
    /\ image \in known.described \/ imagePast.lost \/ Call("describe", image) \in imageCalls
    /\ detailsTab = "events" =>
         \/ image \in known.events \/ imagePast.reselected \/ imagePast.failed
         \/ Call("events", image) \in imageCalls

\* The dialog waits exactly while a build is under way, and shows no error then.
BuildIsUnderWay ==
  /\ build.pending <=> About({"build"}) # {}
  /\ build.pending => ~build.errors

\* The list, the details of an image and the dialog show what was asked last, or
\* wait for it, with requests that overlap and fail as the only exceptions.
ImagesInStep ==
  /\ ImagesTypeOK
  /\ ListIsOfChosen /\ ConfigurationIsOfSelected
  /\ DetailsOnTheirWay /\ BuildIsUnderWay
=============================================================================
