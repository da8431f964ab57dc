------------------------------- MODULE Ratings ------------------------------
(***************************************************************************)
(* RatingService and RatingController, with the notifications of users     *)
(* (NotificationService.markAsRead and removeNotification, which two       *)
(* handlers of UserController call).  Ratings live in MongoDB, users and   *)
(* products in MySQL: nothing destroys a rating with its user or product,  *)
(* and a user may rate as often as he likes.  A product rating and a       *)
(* platform rating differ in the collection and in what is looked up       *)
(* first.                                                                  *)
(***************************************************************************)
EXTENDS Requests

CONSTANTS
    Authors,   \* users who rate
    Ratings,   \* bound: ratings that may be added
    Things,    \* products that may be rated
    Platform,  \* what a platform rating is about
    Notices    \* bound: notifications that users are sent

ASSUME RatingsAssumption == None \notin Authors

VARIABLES
    users,     \* users who exist
    things,    \* products that exist
    rating,    \* of each slot: a rating, or NoRating
    notice     \* of each slot: a notification, or NoNotice

ratingVars == <<users, things, rating, notice>>

NoRating == [author |-> None, about |-> None]
NoNotice == [user |-> None, read |-> FALSE]
DeletedRating == [author |-> None, about |-> Platform]
DeletedNotice == [user |-> None, read |-> TRUE]

RatingSteps ==
    {"rate.find", "rate.create", "ratings.find", "ratings.list", "rerate", "unrate", "ban",
     "notice.find", "notice.save", "notice.all", "notice.none", "notice.destroy"}

(* A request about notifications names one, asks for all, or, with an id   *)
(* that is zero or no number, which its routes do not refuse, names none.  *)
Which == {"one", "all", "none"}

Everything == Things \cup {Platform}
RatingArgs ==
    [user : Authors, about : Everything \cup {None}, rating : Ratings \cup {None},
     notice : Notices \cup {None}, which : Which]
By(u) == [user |-> u, about |-> None, rating |-> None, notice |-> None, which |-> "one"]

RatingsOK ==
    /\ users \in SUBSET Authors /\ things \in SUBSET Things
    /\ rating \in [Ratings -> {NoRating, DeletedRating} \cup [author : Authors, about : Everything]]
    /\ notice \in [Notices -> {NoNotice, DeletedNotice} \cup [user : Authors, read : BOOLEAN]]

RatingsInit ==
    /\ users = Authors /\ things = Things
    /\ rating = [x \in Ratings |-> NoRating]
    /\ notice = [n \in Notices |-> NoNotice]

(* Accounts and Catalog delete users and products; here they just go.      *)
Gone ==
    /\ \/ \E u \in users : users' = users \ {u} /\ UNCHANGED things
       \/ \E p \in things : things' = things \ {p} /\ UNCHANGED users
    /\ UNCHANGED <<rating, notice, requestVars>>

-----------------------------------------------------------------------------
(* addPlatformRating and addProductRating                                  *)

Rate(r, u, a) ==
    /\ Begin(r, [By(u) EXCEPT !.about = a], "rate.find")
    /\ UNCHANGED ratingVars

RateFind(r) ==
    LET a == arg[r] IN
    /\ At(r, "rate.find")
    /\ IF a.user \in users /\ a.about \in things \cup {Platform}
       THEN Goto(r, "rate.create")
       ELSE Answer(r, NotFound)
    /\ UNCHANGED ratingVars

RateCreate(r) ==
    /\ At(r, "rate.create")
    /\ \E x \in Ratings :
          /\ rating[x] = NoRating
          /\ rating' = [rating EXCEPT ![x] = [author |-> arg[r].user, about |-> arg[r].about]]
    /\ WriteAnswer(r, Created)
    /\ UNCHANGED <<users, things, notice>>

-----------------------------------------------------------------------------
(* getProductRatingsByProductId, and the ratings of a customer: what they  *)
(* are about is looked up, and then they are listed.                       *)

List(r, u, a) ==
    /\ Begin(r, [By(u) EXCEPT !.about = a], "ratings.find")
    /\ UNCHANGED ratingVars

ListFind(r) ==
    LET a == arg[r] IN
    /\ At(r, "ratings.find")
    /\ IF IF a.about = None THEN a.user \in users ELSE a.about \in things
       THEN Goto(r, "ratings.list")
       ELSE Answer(r, NotFound)
    /\ UNCHANGED ratingVars

ListAnswer(r) ==
    /\ At(r, "ratings.list")
    /\ Answer(r, Found)
    /\ UNCHANGED ratingVars

-----------------------------------------------------------------------------
(* updateRating, and the deletions by an author and by an administrator:   *)
(* one call to MongoDB; that of an author names the author in its filter.  *)

Own(r, u, x, step) ==
    /\ Begin(r, [By(u) EXCEPT !.rating = x], step)
    /\ UNCHANGED ratingVars

IsOwn(r) == rating[arg[r].rating].author = arg[r].user

UpdateOwn(r) ==
    /\ At(r, "rerate")
    /\ IF IsOwn(r) THEN WriteAnswer(r, Found) ELSE Answer(r, NotFound)
    /\ UNCHANGED ratingVars

Removed(x) == [rating EXCEPT ![x] = DeletedRating]

DeleteOwn(r) ==
    /\ At(r, "unrate")
    /\ \/ IsOwn(r) /\ rating' = Removed(arg[r].rating) /\ WriteAnswer(r, Deleted)
       \/ ~IsOwn(r) /\ Answer(r, NotFound) /\ UNCHANGED rating
    /\ UNCHANGED <<users, things, notice>>

DeleteAny(r) ==
    LET x == arg[r].rating IN
    /\ At(r, "ban")
    /\ \/ rating[x].author # None /\ rating' = Removed(x) /\ WriteAnswerLog(r, Deleted)
       \/ rating[x].author = None /\ Answer(r, NotFound) /\ UNCHANGED rating
    /\ UNCHANGED <<users, things, notice>>

-----------------------------------------------------------------------------
(* Notifications.  sendNotification is called by the other services.       *)

SendNotification ==
    /\ \E n \in Notices, u \in users :
          notice[n] = NoNotice /\ notice' = [notice EXCEPT ![n] = [user |-> u, read |-> FALSE]]
    /\ UNCHANGED <<users, things, rating, requestVars>>

Notice(r, u, n, which, step) ==
    /\ Begin(r, [By(u) EXCEPT !.notice = n, !.which = which], step)
    /\ UNCHANGED ratingVars

(* With all, the notices of the user are updated, or destroyed, at once.   *)
(* The answer is the same when there are none.                             *)
NoticesOf(u) == {n \in Notices : notice[n].user = u}

NoticeAll(r) ==
    LET own == NoticesOf(arg[r].user) IN
    /\ At(r, "notice.all")
    /\ \E code \in {Found, Deleted} :
          /\ notice' = [n \in Notices |->
                IF n \notin own THEN notice[n]
                ELSE IF code = Deleted THEN DeletedNotice
                ELSE [notice[n] EXCEPT !.read = TRUE]]
          /\ IF own = {} THEN Answer(r, code) ELSE WriteAnswer(r, code)
    /\ UNCHANGED <<users, things, rating>>

(* Without all, and without an id that is true, nothing is done; it is     *)
(* answered as if it had been.                                             *)
NoticeNone(r) ==
    /\ At(r, "notice.none")
    /\ \E code \in {Found, Deleted} : Answer(r, code)
    /\ UNCHANGED ratingVars

IsMine(r) == notice[arg[r].notice].user = arg[r].user

(* A notification that is not found is a server error.                     *)
MarkFind(r) ==
    /\ At(r, "notice.find")
    /\ IF IsMine(r) THEN Goto(r, "notice.save") ELSE Answer(r, ServerError)
    /\ UNCHANGED ratingVars

MarkSave(r) ==
    LET n == arg[r].notice IN
    /\ At(r, "notice.save")
    /\ notice' = IF notice[n] = DeletedNotice THEN notice ELSE [notice EXCEPT ![n].read = TRUE]
    /\ WriteAnswer(r, Found)
    /\ UNCHANGED <<users, things, rating>>

RemoveNotification(r) ==
    /\ At(r, "notice.destroy")
    /\ \/ /\ IsMine(r)
          /\ notice' = [notice EXCEPT ![arg[r].notice] = DeletedNotice]
          /\ WriteAnswer(r, Deleted)
       \/ ~IsMine(r) /\ Answer(r, ServerError) /\ UNCHANGED notice
    /\ UNCHANGED <<users, things, rating>>

-----------------------------------------------------------------------------
RatingsArrive(r) == \E u \in Authors :
    \/ \E a \in Everything : Rate(r, u, a)
    \/ \E a \in Things \cup {None} : List(r, u, a)
    \/ \E x \in Ratings : Own(r, u, x, "rerate") \/ Own(r, u, x, "unrate") \/ Own(r, u, x, "ban")
    \/ Notice(r, u, None, "all", "notice.all") \/ Notice(r, u, None, "none", "notice.none")
    \/ \E n \in Notices :
          Notice(r, u, n, "one", "notice.find") \/ Notice(r, u, n, "one", "notice.destroy")

RatingsContinue(r) ==
    \/ RateFind(r) \/ RateCreate(r) \/ ListFind(r) \/ ListAnswer(r)
    \/ UpdateOwn(r) \/ DeleteOwn(r) \/ DeleteAny(r)
    \/ NoticeAll(r) \/ NoticeNone(r) \/ MarkFind(r) \/ MarkSave(r) \/ RemoveNotification(r)

RatingsOutside == Gone \/ SendNotification

=============================================================================
