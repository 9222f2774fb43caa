SPECIFICATION Spec
CONSTANTS
  c1 = c1
  c2 = c2
  r1 = r1
  p1 = p1
  p2 = p2
  t1 = t1
  d1 = d1
  None = None
  Sweepers = {c1}
  Reviewers = {r1}
  Portals = {p1, p2}
  Tenders = {t1}
  PortalOf <- OnlyFirst
  Districts = {d1}
  Listings = {1, 2}
  Details = {"chain", "office"}
  Readings <- Sightings
  MaxIngestions = 3
  MaxDecisions = 0
INVARIANT VersionCitesItsPage
