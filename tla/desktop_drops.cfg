SPECIFICATION FairSpec
CONSTANTS
    Offers = {o1, o2}
    NoOffer = NoOffer
    Contents <- Lists
    OfferLimit = 2
    FileLimit = 2
    ByteLimit = 2
    Patience = 1
    Workers = {w1}
INVARIANTS OffersAccounted AllOrNone
PROPERTIES PublicationSeen TransferEnds
