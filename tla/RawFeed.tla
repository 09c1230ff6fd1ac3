-------------------------------- MODULE RawFeed --------------------------------
(***************************************************************************)
(* What raw collection promises the rest of the pipeline: the raw zone     *)
(* only grows, and the two reference events of a document (S1              *)
(* document_fetched, S2 raw_stored) appear in that order and only once the *)
(* document can be read back.  An event may be repeated, which changes     *)
(* nothing here: consumers know an event by its idempotency key.           *)
(***************************************************************************)
CONSTANT Docs

VARIABLES
    stored,     \* documents some committed shard holds
    fetched,    \* documents whose S1 event is on the topic
    announced   \* documents whose S2 event is on the topic

feed == <<stored, fetched, announced>>

FeedInit ==
    /\ stored \subseteq Docs
    /\ fetched = {}
    /\ announced = {}

(* One shard makes any number of documents durable.                        *)
StoreShard ==
    \E shard \in SUBSET Docs :
        /\ stored' = stored \cup shard
        /\ UNCHANGED <<fetched, announced>>

AnnounceFetched ==
    \E d \in stored :
        /\ fetched' = fetched \cup {d}
        /\ UNCHANGED <<stored, announced>>

AnnounceStored ==
    \E d \in fetched :
        /\ announced' = announced \cup {d}
        /\ UNCHANGED <<stored, fetched>>

FeedNext == StoreShard \/ AnnounceFetched \/ AnnounceStored

FeedSpec == FeedInit /\ [][FeedNext]_feed
===============================================================================
