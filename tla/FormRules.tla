------------------------------- MODULE FormRules -------------------------------
(***************************************************************************)
(* FormRulesService, which documents a listing needs and which deal fields *)
(* each of them must show, and the list of AcceptanceService for the       *)
(* documents of a selected offer.  What the deal's fields say is a set of  *)
(* facts: the names of the fields that hold a non-empty value and, for the *)
(* two fields whose value matters, what it says.                           *)
(***************************************************************************)

ListingFields ==
  {"seller_name", "address", "property_address", "list_price",
   "year_built", "hoa_name", "hoa_flag"}

\* "before_1978": year_built parses to a year below 1978; "is_hoa": hoa_flag
\* is the string 'true'.
Facts == ListingFields \cup {"before_1978", "is_hoa"}

\* What one field may say: nothing, that it is filled in, or its special value.
Readings(field) ==
  {{}, {field}} \cup
  (CASE field = "year_built" -> {{field, "before_1978"}}
     [] field = "hoa_flag" -> {{field, "is_hoa"}}
     [] OTHER -> {})

RequiredFields ==
  [ listing_agreement     |-> {"seller_name", "address", "list_price"},
    seller_disclosure     |-> {"seller_name", "address"},
    lead_paint_disclosure |-> {"seller_name", "address", "year_built"},
    hoa_addendum          |-> {"seller_name", "address", "hoa_name"},
    agency_disclosure     |-> {"seller_name", "address"} ]

ListingTypes == DOMAIN RequiredFields
AcceptanceTypes == {"purchase_agreement", "acceptance_letter"}

\* getRequiredDocuments for a deal of type listing; other types need none.
RequiredDocuments(facts) ==
  {"listing_agreement", "seller_disclosure", "agency_disclosure"}
    \cup { t \in {"lead_paint_disclosure"} : "before_1978" \in facts }
    \cup { t \in {"hoa_addendum"} : "is_hoa" \in facts }

\* getMissingFields: nothing is missing of a type the table does not know.
MissingFields(type, facts) ==
  IF type \in ListingTypes THEN RequiredFields[type] \ facts ELSE {}

\* missingRequired of prepareAcceptancePackage: what the deal lacks, besides
\* what the offer itself lacks (its buyer's name, its price, its close date).
AcceptanceMissing(facts, offerLacks) ==
  offerLacks \cup ({"seller_name", "property_address"} \ facts)

\* Mutant of StatusOf: the status an offer with gaps has.
StatusOfOffer(missing) == IF missing = {} THEN "draft" ELSE "incomplete"

StatusOf(missing) == IF missing = {} THEN "draft" ELSE "missing_info"
=============================================================================
