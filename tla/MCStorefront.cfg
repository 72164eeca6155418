SPECIFICATION Spec
CONSTANTS
  Products = {1, 2, 3}
  Keys = {1, 2}
  Hidden = Hidden
  Categories = {"filters", "pads"}
  CategoryOf <- MCCategoryOf
  Brands = {"bosch"}
  BrandOf <- MCBrandOf
  None = "none"
  Availabilities = {"in_stock", "on_order"}
  AvailabilityOf <- MCAvailabilityOf
  ByNumber = {1, 2}
  ByName = {2, 3}
  PerPages <- MCPerPages
  Typed = {0, 9}
  MaxPage = 4
  Span = 2
INVARIANT TypeOK
INVARIANT MissesHaveCause
INVARIANT RepeatsHaveCause
INVARIANT EmptyPagesHaveCause
INVARIANT SideBarAgrees
