\* Two concurrent requests on the documents of one type.
CONSTANTS
  Types = {"listing_agreement", "purchase_agreement"}
  DocIds = {d1, d2}
  Offers = {o1}
  Incomplete = {}
  Editable = {"seller_name"}
  Requests = {r1, r2}
  MaxVersion = 2
  MaxRows = 4
  MaxPackage = 2
SPECIFICATION Spec
SYMMETRY Symmetry
VIEW RaceView
INVARIANTS TypeOK HistoryDense StatusHonest FileFaithful
PROPERTY PublishedFixed
