\* All feeds over a venue of three update numbers and three prices.
SPECIFICATION SyncSpec
INVARIANTS
  BookIsVenueBook
  PublishedIsTracked
PROPERTIES
  HealthyFeedIsAdmitted
CONSTANTS
  Prices <- ThreePrices
  MaxQuantity = 1
  Factor = 10
  Feeds = {"spot", "perpetual", "okx"}
  MaxId = 3
  MaxRows = 3
